---- MODULE Spec2Model ----
(***************************************************************************)
(* Verification model of the mini_motorways_game simulation core:          *)
(*   Road (entities/Road.ts), Pathfinding (utils/Pathfinding.ts),          *)
(*   Car / Destination (entities), TrafficManager, GameStateManager and    *)
(*   the per-frame driver GameScene.update.                                *)
(*                                                                         *)
(* The specifications share the variables:                                 *)
(*   SpecRoad   : any sequence of addSegment / removeSegment calls on a    *)
(*                small window of the grid.                                *)
(*   SpecPath   : findPath on every road drawn on a small window.          *)
(*   SpecOrder  : findPath on the same cells added in different orders.    *)
(*   SpecRouter : findPath and findNearestRoad on the roads of SpecPath.   *)
(*   Spec       : the traffic simulation on a built scenario: house spawn  *)
(*                timers firing, frames (GameScene.update), the house      *)
(*                polling timer, TrafficManager.start and destroy.         *)
(*   SpecSched  : the scheduling of the house spawn timers.                *)
(*   SpecRun    : GameStateManager's calls interleaved with the frames.    *)
(*   SpecLive   : the frames under weak fairness, for arrival.             *)
(*   SpecColors : spawning with houses and destinations of two colours.    *)
(*   SpecTarget : spawning with two destinations, one of them cut off.     *)
(*   SpecCheck  : checkGameOver on lists of waiting counts.                *)
(*   SpecPlace  : SpawnManager placing buildings on a small board.         *)
(*   SpecCadence: the building spawn timer down to its shortest interval.  *)
(*   SpecBuild  : RoadBuilder's pointer handlers next to SpawnManager.     *)
(*   SpecTransit: the road erased and redrawn under vehicles in transit.   *)
(*                                                                         *)
(* Units: positions are half pixels, delta is milliseconds.                *)
(* JavaScript Map and Set iterate in insertion order, so both are          *)
(* sequences without duplicates here.                                      *)
(***************************************************************************)
EXTENDS Integers, Sequences, FiniteSets, TLC

VARIABLES
    segments,          \* Road.segments : Map<string, RoadSegment>
    call,              \* the last operation performed, its arguments and result
    houses,            \* SpawnManager.houses
    destinations,      \* SpawnManager.destinations (with waitingCars)
    cars,              \* TrafficManager.cars
    timers,            \* pending scene.time.delayedCall(spawnCar) per house
    trackedHouses,     \* TrafficManager.trackedHouses
    houseSpawnTimers,  \* TrafficManager.houseSpawnTimers
    state,             \* GameStateManager.state
    score,             \* GameStateManager.score
    spawned,           \* history: vehicles ever created
    retired,           \* history: vehicles retired on arrival
    destroyed,         \* history: TrafficManager.destroy() has run
    startCalls,        \* history: number of TrafficManager.start calls
    endGameCalls,      \* history: number of GameStateManager.endGame calls
    isBuilding,        \* RoadBuilder.isBuilding
    isErasing,         \* RoadBuilder.isErasing
    lastBuiltPos,      \* RoadBuilder.lastBuiltPos
    currentSpawnInterval, \* SpawnManager.currentSpawnInterval
    scheduledSpawns    \* history: number of SpawnManager.scheduleNextSpawn calls

vars == <<segments, call, houses, destinations, cars, timers, trackedHouses,
          houseSpawnTimers, state, score, spawned, retired, destroyed, startCalls,
          endGameCalls, isBuilding, isErasing, lastBuiltPos, currentSpawnInterval,
          scheduledSpawns>>

roadVars == <<segments>>
builderVars == <<isBuilding, isErasing, lastBuiltPos>>
spawnVars == <<currentSpawnInterval, scheduledSpawns>>
gameVars == <<houses, destinations, cars, timers, trackedHouses,
              houseSpawnTimers, state, score, spawned, retired, destroyed, startCalls,
              endGameCalls, builderVars, spawnVars>>

----------------------------------------------------------------------------
(* Bounds of the model *)

GridW == 2          \* width of the window of grid cells roads are drawn in
GridH == 2          \* height of that window
MaxSegments == 4    \* most road cells present at once under SpecRoad
PathW == 3          \* width of the window of grid cells under SpecPath
PathH == 2          \* height of that window
MaxSpawned == 9     \* most vehicles created in one run under Spec
MaxSchedSpawned == 2 \* most vehicles created in one run under SpecSched
MaxStartCalls == 1  \* most calls of TrafficManager.start under SpecSched
MaxLiveSpawned == 2 \* most vehicles created under SpecLive
MaxColorSpawned == 2 \* most vehicles created under SpecColors
BoardW == 4         \* grid width in cells under SpecPlace and SpecBuild
BoardH == 3         \* grid height in cells under SpecPlace and SpecBuild
MaxBuildingSpawns == 4 \* most firings of the building spawn timer
MaxBuildSegments == 3 \* most road cells present at once under SpecBuild
MaxBuildSpawns == 1 \* most firings of the building spawn timer under SpecBuild
MaxAttempts == 2    \* attempts of findValidSpawnPosition (maxAttempts is 50)
MaxDestinations == 2 \* longest destination list under SpecCheck
MaxRunSpawned == 2  \* most vehicles created under SpecRun
MaxEndGameCalls == 2 \* most direct calls of endGame under SpecRun
MaxTargetSpawned == 2 \* most vehicles created in one run under SpecTarget
MaxScheduledSpawns == 82 \* most scheduleNextSpawn calls under SpecCadence
MaxTransitSpawned == 2 \* most vehicles created in one run under SpecTransit

----------------------------------------------------------------------------
(* Cells and keys *)

Cell(x, y) == [gridX |-> x, gridY |-> y]

\* `${gridX},${gridY}` : the string key of a cell
Key(x, y) == <<x, y>>

\* neighborKey.split(',').map(Number)
ParseKey(k) == Cell(k[1], k[2])

KeyOf(c) == Key(c.gridX, c.gridY)

\* null, where a cell is expected
NoCell == Cell(-1, -1)

Abs(n) == IF n < 0 THEN -n ELSE n

Range(s) == {s[i] : i \in 1..Len(s)}

\* Set.add on an insertion-ordered set
SetAdd(s, k) == IF k \in Range(s) THEN s ELSE Append(s, k)

\* mutant: the oldest key is deleted, whichever key is given
SetDeleteOldest(s, k) == IF s = << >> THEN s ELSE Tail(s)

\* Set.delete / Map.delete on an insertion-ordered collection of keys
SetDelete(s, k) == SelectSeq(s, LAMBDA e : e # k)

----------------------------------------------------------------------------
(* Road *)

directions ==
    << [dx |-> 0, dy |-> -1], [dx |-> 1, dy |-> 0],
       [dx |-> 0, dy |-> 1],  [dx |-> -1, dy |-> 0] >>

hasKey(segs, k) == \E i \in 1..Len(segs) : segs[i].key = k

hasSegment(segs, x, y) == hasKey(segs, Key(x, y))

getSegment(segs, k) == segs[CHOOSE i \in 1..Len(segs) : segs[i].key = k]

\* the keys of the occupied cells 4-adjacent to (x, y), in direction order
adjacentKeys(segs, x, y) ==
    LET cand == [i \in 1..4 |-> Key(x + directions[i].dx, y + directions[i].dy)]
    IN  SelectSeq(cand, LAMBDA k : hasKey(segs, k))

\* mutant: the cell is added without looking for an existing segment
addSegmentNoCheck(segs, x, y) ==
    LET key == Key(x, y)
        linked == adjacentKeys(segs, x, y)
        segment == [key |-> key, gridX |-> x, gridY |-> y, neighbors |-> linked]
    IN  Append(segs, segment)

\* mutant: the new cell is not recorded in the neighbour it links to
linkBackOneWay(seg, linked, key) == seg

linkBack(seg, linked, key) ==
    IF seg.key \in Range(linked)
    THEN [seg EXCEPT !.neighbors = SetAdd(@, key)]
    ELSE seg

\* Road.addSegment: the network after the call
addSegment(segs, x, y) ==
    LET key == Key(x, y)
        linked == adjacentKeys(segs, x, y)
        segment == [key |-> key, gridX |-> x, gridY |-> y, neighbors |-> linked]
    IN  IF hasKey(segs, key)
        THEN segs
        ELSE Append([i \in 1..Len(segs) |-> linkBack(segs[i], linked, key)], segment)

\* mutant: the removed cell stays in its former neighbours' sets
unlinkKeepsEntry(seg, gone, key) == seg

unlink(seg, gone, key) ==
    IF seg.key \in Range(gone.neighbors)
    THEN [seg EXCEPT !.neighbors = SetDelete(@, key)]
    ELSE seg

\* mutant: the neighbours are unlinked but the segment is not deleted
removeSegmentKeepsCell(segs, x, y) ==
    LET key == Key(x, y)
    IN  IF ~hasKey(segs, key)
        THEN segs
        ELSE LET gone == getSegment(segs, key)
             IN  [i \in 1..Len(segs) |-> unlink(segs[i], gone, key)]

\* Road.removeSegment: the network after the call
removeSegment(segs, x, y) ==
    LET key == Key(x, y)
    IN  IF ~hasKey(segs, key)
        THEN segs
        ELSE LET gone == getSegment(segs, key)
                 rest == [i \in 1..Len(segs) |-> unlink(segs[i], gone, key)]
             IN  SelectSeq(rest, LAMBDA s : s.key # key)

\* Road.getAllSegments
getAllSegments(segs) == segs

\* mutant: the neighbours are listed in the order of the segments map
getNeighborsInMapOrder(segs, x, y) ==
    IF ~hasKey(segs, Key(x, y))
    THEN << >>
    ELSE LET ns == Range(getSegment(segs, Key(x, y)).neighbors)
             listed == SelectSeq(segs, LAMBDA g : g.key \in ns)
         IN  [i \in 1..Len(listed) |-> ParseKey(listed[i].key)]

\* Road.getNeighbors
getNeighbors(segs, x, y) ==
    IF ~hasKey(segs, Key(x, y))
    THEN << >>
    ELSE LET ns == getSegment(segs, Key(x, y)).neighbors
         IN  [i \in 1..Len(ns) |-> ParseKey(ns[i])]

----------------------------------------------------------------------------
(* Pathfinding *)

NoParent == << >>

heuristic(a, b) == Abs(a.gridX - b.gridX) + Abs(a.gridY - b.gridY)

PathNode(c, g, h, parent) ==
    [key |-> KeyOf(c), gridX |-> c.gridX, gridY |-> c.gridY,
     g |-> g, h |-> h, f |-> g + h, parent |-> parent]

\* mutant: the scan keeps the node of the highest f
highestF(open) ==
    LET i == CHOOSE i \in 1..Len(open) :
                 /\ \A j \in 1..Len(open) : open[i].f >= open[j].f
                 /\ \A j \in 1..(i - 1) : open[j].f < open[i].f
    IN  open[i]

\* the scan "for (const node of openSet.values()) if (node.f < lowestF)":
\* the first node, in insertion order, of the lowest f
lowestF(open) ==
    LET i == CHOOSE i \in 1..Len(open) :
                 /\ \A j \in 1..Len(open) : open[i].f <= open[j].f
                 /\ \A j \in 1..(i - 1) : open[j].f > open[i].f
    IN  open[i]

\* mutant: path.push instead of path.unshift, the path comes out goal first
RECURSIVE reconstructPathPush(_, _)
reconstructPathPush(node, closed) ==
    IF node.parent = NoParent
    THEN << Cell(node.gridX, node.gridY) >>
    ELSE LET p == CHOOSE n \in closed : n.key = node.parent
         IN  << Cell(node.gridX, node.gridY) >> \o reconstructPathPush(p, closed)

RECURSIVE reconstructPath(_, _)
reconstructPath(node, closed) ==
    IF node.parent = NoParent
    THEN << Cell(node.gridX, node.gridY) >>
    ELSE LET p == CHOOSE n \in closed : n.key = node.parent
         IN  Append(reconstructPath(p, closed), Cell(node.gridX, node.gridY))

\* one pass of the loop over a neighbour: the open set after it
relaxNeighbor(open, closedKeys, current, neighbor, end) ==
    LET nk == KeyOf(neighbor)
        tentativeG == current.g + 1
    IN  IF nk \in closedKeys
        THEN open
        ELSE IF ~(\E i \in 1..Len(open) : open[i].key = nk)
        THEN Append(open, PathNode(neighbor, tentativeG, heuristic(neighbor, end), current.key))
        ELSE [i \in 1..Len(open) |->
                 IF open[i].key = nk /\ tentativeG < open[i].g
                 THEN [open[i] EXCEPT !.g = tentativeG, !.f = tentativeG + open[i].h,
                                      !.parent = current.key]
                 ELSE open[i]]

RECURSIVE relaxAll(_, _, _, _, _, _)
relaxAll(open, closedKeys, current, neighbors, i, end) ==
    IF i > Len(neighbors)
    THEN open
    ELSE relaxAll(relaxNeighbor(open, closedKeys, current, neighbors[i], end),
                  closedKeys, current, neighbors, i + 1, end)

\* the while (openSet.size > 0) loop
RECURSIVE searchLoop(_, _, _, _)
searchLoop(segs, end, open, closed) ==
    IF Len(open) = 0
    THEN << >>
    ELSE LET current == lowestF(open)
         IN  IF current.key = KeyOf(end)
             THEN reconstructPath(current, closed)
             ELSE LET open1 == SelectSeq(open, LAMBDA n : n.key # current.key)
                      closed1 == closed \cup {current}
                      closedKeys == {n.key : n \in closed1}
                      neighbors == getNeighbors(segs, current.gridX, current.gridY)
                  IN  searchLoop(segs, end,
                                 relaxAll(open1, closedKeys, current, neighbors, 1, end),
                                 closed1)

\* mutant: start = end is tested before the occupancy of start and end
findPathSameFirst(segs, start, end) ==
    IF KeyOf(start) = KeyOf(end)
    THEN << Cell(start.gridX, start.gridY) >>
    ELSE IF ~hasSegment(segs, start.gridX, start.gridY) \/ ~hasSegment(segs, end.gridX, end.gridY)
    THEN << >>
    ELSE searchLoop(segs, end,
                    << PathNode(start, 0, heuristic(start, end), NoParent) >>, {})

\* Pathfinding.findPath
findPath(segs, start, end) ==
    IF ~hasSegment(segs, start.gridX, start.gridY) \/ ~hasSegment(segs, end.gridX, end.gridY)
    THEN << >>
    ELSE IF KeyOf(start) = KeyOf(end)
    THEN << Cell(start.gridX, start.gridY) >>
    ELSE searchLoop(segs, end,
                    << PathNode(start, 0, heuristic(start, end), NoParent) >>, {})

NoRoad == [none |-> TRUE]

RECURSIVE nearestScan(_, _, _, _, _, _)
nearestScan(all, position, maxDistance, i, nearest, minDistance) ==
    IF i > Len(all)
    THEN nearest
    ELSE LET distance == Abs(all[i].gridX - position.gridX)
                          + Abs(all[i].gridY - position.gridY)
         IN  IF (minDistance = -1 \/ distance < minDistance) /\ distance <= maxDistance
             THEN nearestScan(all, position, maxDistance, i + 1,
                              Cell(all[i].gridX, all[i].gridY), distance)
             ELSE nearestScan(all, position, maxDistance, i + 1, nearest, minDistance)

\* mutant: a segment one cell beyond maxDistance is accepted
findNearestRoadBeyond(segs, position, maxDistance) ==
    nearestScan(getAllSegments(segs), position, maxDistance + 1, 1, NoRoad, -1)

\* mutant: the scan runs over the segments last to first
findNearestRoadLast(segs, position, maxDistance) ==
    LET all == getAllSegments(segs)
    IN  nearestScan([i \in 1..Len(all) |-> all[Len(all) + 1 - i]],
                    position, maxDistance, 1, NoRoad, -1)

\* Pathfinding.findNearestRoad (minDistance = -1 stands for Infinity)
findNearestRoad(segs, position, maxDistance) ==
    nearestScan(getAllSegments(segs), position, maxDistance, 1, NoRoad, -1)

----------------------------------------------------------------------------
(* GameConfig *)

GRID_SIZE == 25
CAR_SPEED == 150
MAX_CARS_PER_DESTINATION == 8
POINTS_PER_DELIVERY == 10
SPAWN_INTERVAL == 8000
SPAWN_INTERVAL_DECREASE == 50
MIN_SPAWN_INTERVAL == 4000

\* GameConfig.COLORS[0] and [1]
Red == 16739179
Teal == 5164484

\* "if (distance < 3)" in Car.update, in pixels
SnapDistance == 3

\* the maxDistance TrafficManager passes to findNearestRoad
NearestRoadRadius == 3

----------------------------------------------------------------------------
(* Positions.  A cell centre is gridX * GRID_SIZE + GRID_SIZE / 2, a half    *)
(* pixel value; world coordinates are carried in half pixels to stay        *)
(* integers.                                                                *)

\* mutant: the corner of the cell instead of its centre
gridToWorldCorner(g) == 2 * g * GRID_SIZE

\* Grid.gridToWorld, one coordinate, in half pixels
gridToWorld(g) == 2 * g * GRID_SIZE + GRID_SIZE

\* floor of the square root
ISqrt(n) == CHOOSE r \in 0..n : r * r <= n /\ n < (r + 1) * (r + 1)

\* a / b rounded to the nearest integer, b > 0
RoundDiv(a, b) == IF a >= 0 THEN (2 * a + b) \div (2 * b) ELSE -((2 * (-a) + b) \div (2 * b))

----------------------------------------------------------------------------
(* Destination *)

\* mutant: the vehicle is counted twice
addWaitingCarTwice(dest) == [dest EXCEPT !.waitingCars = @ + 2]

\* Destination.addWaitingCar
addWaitingCar(dest) == [dest EXCEPT !.waitingCars = @ + 1]

\* Destination.removeWaitingCar
removeWaitingCar(dest) ==
    [dest EXCEPT !.waitingCars = IF @ - 1 > 0 THEN @ - 1 ELSE 0]

\* Destination.getWaitingCars
getWaitingCars(dest) == dest.waitingCars

getGridPosition(b) == Cell(b.gridX, b.gridY)

----------------------------------------------------------------------------
(* Car *)

\* new Car(scene, x, y, color)
NewCar(x, y, color) ==
    [x |-> x, y |-> y, color |-> color, targetDestination |-> NoCell,
     path |-> << >>, currentPathIndex |-> 0, isMoving |-> FALSE]

\* Car.setPath
setPath(car, path) ==
    [car EXCEPT !.path = path, !.currentPathIndex = 0, !.isMoving = Len(path) > 0]

\* the displacement of one frame toward the waypoint at (dx, dy): exactly
\* moveDistance along the axis when the waypoint lies on one, and the nearest
\* half pixel to (d / distance) * moveDistance otherwise
moveToward(car, dx, dy, moveDistance) ==
    IF dy = 0 THEN [car EXCEPT !.x = @ + (IF dx > 0 THEN moveDistance ELSE -moveDistance)]
    ELSE IF dx = 0 THEN [car EXCEPT !.y = @ + (IF dy > 0 THEN moveDistance ELSE -moveDistance)]
    ELSE LET distance == ISqrt(dx * dx + dy * dy)
         IN  [car EXCEPT !.x = @ + RoundDiv(dx * moveDistance, distance),
                         !.y = @ + RoundDiv(dy * moveDistance, distance)]

\* mutant: a car that reaches a waypoint also moves on toward the next one
carUpdateMovesOn(car, delta) ==
    IF ~car.isMoving \/ Len(car.path) = 0
    THEN [car |-> car, reached |-> FALSE]
    ELSE IF car.currentPathIndex >= Len(car.path)
    THEN [car |-> [car EXCEPT !.isMoving = FALSE], reached |-> TRUE]
    ELSE LET target == car.path[car.currentPathIndex + 1]
             dx == gridToWorld(target.gridX) - car.x
             dy == gridToWorld(target.gridY) - car.y
         IN  IF dx * dx + dy * dy < (2 * SnapDistance) * (2 * SnapDistance)
             THEN IF car.currentPathIndex + 1 >= Len(car.path)
                  THEN [car |-> [car EXCEPT !.currentPathIndex = @ + 1, !.isMoving = FALSE],
                        reached |-> TRUE]
                  ELSE LET next == car.path[car.currentPathIndex + 2]
                       IN  [car |-> moveToward([car EXCEPT !.currentPathIndex = @ + 1],
                                               gridToWorld(next.gridX) - car.x,
                                               gridToWorld(next.gridY) - car.y,
                                               (2 * CAR_SPEED * delta) \div 1000),
                            reached |-> FALSE]
             ELSE [car |-> moveToward(car, dx, dy, (2 * CAR_SPEED * delta) \div 1000),
                   reached |-> FALSE]

\* Car.update(delta): the car after the frame and the value returned
carUpdate(car, delta) ==
    IF ~car.isMoving \/ Len(car.path) = 0
    THEN [car |-> car, reached |-> FALSE]
    ELSE IF car.currentPathIndex >= Len(car.path)
    THEN [car |-> [car EXCEPT !.isMoving = FALSE], reached |-> TRUE]
    ELSE LET target == car.path[car.currentPathIndex + 1]
             dx == gridToWorld(target.gridX) - car.x
             dy == gridToWorld(target.gridY) - car.y
         IN  IF dx * dx + dy * dy < (2 * SnapDistance) * (2 * SnapDistance)
             THEN IF car.currentPathIndex + 1 >= Len(car.path)
                  THEN [car |-> [car EXCEPT !.currentPathIndex = @ + 1, !.isMoving = FALSE],
                        reached |-> TRUE]
                  ELSE [car |-> [car EXCEPT !.currentPathIndex = @ + 1], reached |-> FALSE]
             ELSE [car |-> moveToward(car, dx, dy, (2 * CAR_SPEED * delta) \div 1000),
                   reached |-> FALSE]

----------------------------------------------------------------------------
(* GameStateManager *)

\* mutant: the run ends only when the threshold is exceeded
checkGameOverExceeded(dests) ==
    \E i \in 1..Len(dests) : getWaitingCars(dests[i]) > MAX_CARS_PER_DESTINATION

\* mutant: the loop returns after the first destination
checkGameOverFirst(dests) ==
    Len(dests) > 0 /\ getWaitingCars(dests[1]) >= MAX_CARS_PER_DESTINATION

\* "for (const dest of destinations) if (...) return true", from position i
RECURSIVE checkGameOverFrom(_, _)
checkGameOverFrom(dests, i) ==
    IF i > Len(dests) THEN FALSE
    ELSE IF getWaitingCars(dests[i]) >= MAX_CARS_PER_DESTINATION THEN TRUE
    ELSE checkGameOverFrom(dests, i + 1)

\* GameStateManager.checkGameOver
checkGameOver(dests) == checkGameOverFrom(dests, 1)

\* the run state a GameStateManager holds
RunState(st, sc) == [state |-> st, score |-> sc]

\* new GameStateManager()
NewGameState == RunState("MENU", 0)

\* mutant: the game starts only from the menu
startGameFromMenuOnly(gs) ==
    IF gs.state = "MENU" THEN [gs EXCEPT !.state = "PLAYING", !.score = 0] ELSE gs

\* GameStateManager.startGame
startGame(gs) == [gs EXCEPT !.state = "PLAYING", !.score = 0]

\* GameStateManager.endGame
endGame(gs) == [gs EXCEPT !.state = "GAME_OVER"]

\* GameStateManager.returnToMenu
returnToMenu(gs) == [gs EXCEPT !.state = "MENU"]

\* mutant: the score is assigned, not accumulated
addScoreAssign(sc, points) == points

\* GameStateManager.addScore
addScore(sc, points) == sc + points

----------------------------------------------------------------------------
(* TrafficManager *)

\* mutant: every pair of colours matches
colorsMatchAlways(color1, color2) == TRUE

\* ColorManager.colorsMatch
colorsMatch(color1, color2) == color1 = color2

\* mutant: the first destination is taken whatever the car's target cell
findDestinationForCarFirst(car, dests) ==
    IF car.targetDestination = NoCell \/ Len(dests) = 0 THEN 0 ELSE 1

\* TrafficManager.findDestinationForCar: the index of the first destination
\* at the car's target cell, 0 for null
findDestinationForCar(car, dests) ==
    IF car.targetDestination = NoCell THEN 0
    ELSE IF \E i \in 1..Len(dests) : getGridPosition(dests[i]) = car.targetDestination
    THEN CHOOSE i \in 1..Len(dests) :
            /\ getGridPosition(dests[i]) = car.targetDestination
            /\ \A j \in 1..(i - 1) : getGridPosition(dests[j]) # car.targetDestination
    ELSE 0

\* mutant: the car that reached its destination is not spliced out
updateCarAtKeeps(acc, i, delta) ==
    LET r == carUpdate(acc.cars[i], delta)
        d == findDestinationForCar(r.car, acc.dests)
    IN  IF r.reached
        THEN [cars |-> [acc.cars EXCEPT ![i] = r.car],
              dests |-> IF d # 0 THEN [acc.dests EXCEPT ![d] = removeWaitingCar(@)]
                        ELSE acc.dests,
              arrived |-> acc.arrived + 1]
        ELSE [cars |-> [acc.cars EXCEPT ![i] = r.car], dests |-> acc.dests,
              arrived |-> acc.arrived]

\* the body of the loop of TrafficManager.update for the car at index i
updateCarAt(acc, i, delta) ==
    LET r == carUpdate(acc.cars[i], delta)
        d == findDestinationForCar(r.car, acc.dests)
    IN  IF r.reached
        THEN [cars |-> SubSeq(acc.cars, 1, i - 1) \o SubSeq(acc.cars, i + 1, Len(acc.cars)),
              dests |-> IF d # 0 THEN [acc.dests EXCEPT ![d] = removeWaitingCar(@)]
                        ELSE acc.dests,
              arrived |-> acc.arrived + 1]
        ELSE [cars |-> [acc.cars EXCEPT ![i] = r.car], dests |-> acc.dests,
              arrived |-> acc.arrived]

\* TrafficManager.update: for (i = cars.length - 1; i >= 0; i--)
RECURSIVE updateLoop(_, _, _)
updateLoop(acc, i, delta) ==
    IF i < 1 THEN acc
    ELSE updateLoop(updateCarAt(acc, i, delta), i - 1, delta)

\* a loop "for (i = 0; i < cars.length; i++)" over the same body
RECURSIVE forwardLoop(_, _, _)
forwardLoop(acc, i, delta) ==
    IF i > Len(acc.cars) THEN acc
    ELSE forwardLoop(updateCarAt(acc, i, delta), i + 1, delta)

\* mutant: the list is walked first to last while cars are spliced out of it
trafficUpdateForward(cs, dests, delta) ==
    forwardLoop([cars |-> cs, dests |-> dests, arrived |-> 0], 1, delta)

\* (arrived counts the cars for which car.update returned true)
trafficUpdate(cs, dests, delta) ==
    updateLoop([cars |-> cs, dests |-> dests, arrived |-> 0], Len(cs), delta)

\* mutant: the matching destinations are tried last registered first
matchingDestinationsReversed(dests, house) ==
    LET m == SelectSeq([i \in 1..Len(dests) |-> i],
                       LAMBDA i : colorsMatch(dests[i].color, house.color))
    IN  [k \in 1..Len(m) |-> m[Len(m) + 1 - k]]

\* destinations.filter(dest => colorsMatch(dest.color, house.color)), as indices
matchingDestinations(dests, house) ==
    SelectSeq([i \in 1..Len(dests) |-> i], LAMBDA i : colorsMatch(dests[i].color, house.color))

\* the loop "for (const dest of matchingDestinations)": the first destination,
\* from position k of the matching list, with a road within the radius and a
\* non-empty path; target 0 when there is none
RECURSIVE chooseTarget(_, _, _, _, _)
chooseTarget(segs, dests, matching, k, nearestRoad) ==
    IF k > Len(matching)
    THEN [target |-> 0, path |-> << >>]
    ELSE LET dest == dests[matching[k]]
             destNearestRoad == findNearestRoad(segs, getGridPosition(dest), NearestRoadRadius)
             testPath == IF destNearestRoad = NoRoad THEN << >>
                         ELSE findPath(segs, nearestRoad, destNearestRoad)
         IN  IF Len(testPath) > 0
             THEN [target |-> matching[k], path |-> testPath]
             ELSE chooseTarget(segs, dests, matching, k + 1, nearestRoad)

\* mutant: the destination's road cell is pushed without looking at the
\* last cell of the path
withFinalWaypointAlways(segs, dest, path) ==
    LET destNearestRoad == findNearestRoad(segs, getGridPosition(dest), NearestRoadRadius)
    IN  IF destNearestRoad # NoRoad
        THEN Append(path, destNearestRoad)
        ELSE path

\* "Add destination as final waypoint if not already in path"
withFinalWaypoint(segs, dest, path) ==
    LET destNearestRoad == findNearestRoad(segs, getGridPosition(dest), NearestRoadRadius)
    IN  IF destNearestRoad # NoRoad /\ path[Len(path)] # destNearestRoad
        THEN Append(path, destNearestRoad)
        ELSE path

\* mutant: a firing that spawns nothing does not schedule the next firing
retryNever(cs, dests) == [cars |-> cs, dests |-> dests, target |-> 0, scheduled |-> 0]

\* the branches that spawn nothing: "try again later", one delayedCall
retryLater(cs, dests) == [cars |-> cs, dests |-> dests, target |-> 0, scheduled |-> 1]

\* the callback spawnCar of setupHouseSpawner: the vehicle list and the
\* destinations after one firing for a house, the destination chosen (0 for
\* none) and the number of delayedCall(CAR_SPAWN_DELAY, spawnCar) it made
spawnCar(segs, dests, cs, house) ==
    LET matching == matchingDestinations(dests, house)
        nearestRoad == findNearestRoad(segs, getGridPosition(house), NearestRoadRadius)
        same == retryLater(cs, dests)
    IN  IF Len(matching) = 0 THEN same
        ELSE IF nearestRoad = NoRoad THEN same
        ELSE LET found == chooseTarget(segs, dests, matching, 1, nearestRoad)
             IN  IF found.target # 0 /\ Len(found.path) > 0
                 THEN LET dest == dests[found.target]
                          car0 == NewCar(gridToWorld(nearestRoad.gridX),
                                         gridToWorld(nearestRoad.gridY), house.color)
                          car1 == setPath(car0, withFinalWaypoint(segs, dest, found.path))
                          car == [car1 EXCEPT !.targetDestination = getGridPosition(dest)]
                      IN  [cars |-> Append(cs, car),
                           dests |-> [dests EXCEPT ![found.target] = addWaitingCar(@)],
                           target |-> found.target, scheduled |-> 1]
                 ELSE same

----------------------------------------------------------------------------
(* Records of the last operation *)

CallRec(op, start, end, path, ok, house) ==
    [op |-> op, start |-> start, end |-> end, path |-> path, ok |-> ok, house |-> house]

NoCall == CallRec("none", NoCell, NoCell, << >>, FALSE, 0)

WindowCells == {Cell(x, y) : x \in 0..(GridW - 1), y \in 0..(GridH - 1)}

----------------------------------------------------------------------------
(* SpecRoad: the road network under add / remove / findPath calls *)

InitRoad ==
    /\ segments = << >>
    /\ call = NoCall
    /\ houses = << >>
    /\ destinations = << >>
    /\ cars = << >>
    /\ timers = << >>
    /\ trackedHouses = {}
    /\ houseSpawnTimers = {}
    /\ state = "MENU"
    /\ score = 0
    /\ spawned = 0
    /\ retired = 0
    /\ destroyed = FALSE
    /\ startCalls = 0
    /\ endGameCalls = 0
    /\ isBuilding = FALSE
    /\ isErasing = FALSE
    /\ lastBuiltPos = NoCell
    /\ currentSpawnInterval = SPAWN_INTERVAL
    /\ scheduledSpawns = 0

\* road.addSegment(c.gridX, c.gridY)
AddSegmentCall(c) ==
    /\ hasSegment(segments, c.gridX, c.gridY) \/ Len(segments) < MaxSegments
    /\ segments' = addSegment(segments, c.gridX, c.gridY)
    /\ call' = CallRec("addSegment", c, NoCell, << >>,
                       ~hasSegment(segments, c.gridX, c.gridY), 0)
    /\ UNCHANGED gameVars

\* road.removeSegment(c.gridX, c.gridY)
RemoveSegmentCall(c) ==
    /\ segments' = removeSegment(segments, c.gridX, c.gridY)
    /\ call' = CallRec("removeSegment", c, NoCell, << >>,
                       hasSegment(segments, c.gridX, c.gridY), 0)
    /\ UNCHANGED gameVars

\* Pathfinding.findPath(road, s, e)
FindPathCall(s, e) ==
    /\ call = NoCall
    /\ call' = CallRec("findPath", s, e, findPath(segments, s, e), TRUE, 0)
    /\ UNCHANGED segments
    /\ UNCHANGED gameVars

NextRoad ==
    \/ \E c \in WindowCells : AddSegmentCall(c)
    \/ \E c \in WindowCells : RemoveSegmentCall(c)

SpecRoad == InitRoad /\ [][NextRoad]_vars

----------------------------------------------------------------------------
(* SpecPath: findPath on every road network drawn in a PathW x PathH window *)

PathCells == {Cell(x, y) : x \in 0..(PathW - 1), y \in 0..(PathH - 1)}

\* the cells of a set in row-major order, ascending or descending
RECURSIVE CellOrder(_, _)
CellOrder(cs, descending) ==
    IF cs = {} THEN << >>
    ELSE LET rank(c) == IF descending THEN -(c.gridY * PathW + c.gridX)
                        ELSE c.gridY * PathW + c.gridX
             first == CHOOSE c \in cs : \A d \in cs : rank(c) <= rank(d)
         IN  << first >> \o CellOrder(cs \ {first}, descending)

\* the network after addSegment on each cell of a sequence
RECURSIVE BuildRoad(_, _)
BuildRoad(segs, cells) ==
    IF cells = << >> THEN segs
    ELSE BuildRoad(addSegment(segs, cells[1].gridX, cells[1].gridY), Tail(cells))

InitPath ==
    /\ \E cs \in SUBSET PathCells, descending \in BOOLEAN :
          segments = BuildRoad(<< >>, CellOrder(cs, descending))
    /\ call = NoCall
    /\ houses = << >>
    /\ destinations = << >>
    /\ cars = << >>
    /\ timers = << >>
    /\ trackedHouses = {}
    /\ houseSpawnTimers = {}
    /\ state = "MENU"
    /\ score = 0
    /\ spawned = 0
    /\ retired = 0
    /\ destroyed = FALSE
    /\ startCalls = 0
    /\ endGameCalls = 0
    /\ isBuilding = FALSE
    /\ isErasing = FALSE
    /\ lastBuiltPos = NoCell
    /\ currentSpawnInterval = SPAWN_INTERVAL
    /\ scheduledSpawns = 0

NextPath ==
    \E s \in PathCells, e \in PathCells : FindPathCall(s, e)

SpecPath == InitPath /\ [][NextPath]_vars

----------------------------------------------------------------------------
(* SpecOrder: findPath on every road network drawn in the GridW x GridH     *)
(* window, its cells added in ascending or in descending order              *)

InitOrder ==
    /\ \E cs \in SUBSET WindowCells, descending \in BOOLEAN :
          segments = BuildRoad(<< >>, CellOrder(cs, descending))
    /\ call = NoCall
    /\ houses = << >>
    /\ destinations = << >>
    /\ cars = << >>
    /\ timers = << >>
    /\ trackedHouses = {}
    /\ houseSpawnTimers = {}
    /\ state = "MENU"
    /\ score = 0
    /\ spawned = 0
    /\ retired = 0
    /\ destroyed = FALSE
    /\ startCalls = 0
    /\ endGameCalls = 0
    /\ isBuilding = FALSE
    /\ isErasing = FALSE
    /\ lastBuiltPos = NoCell
    /\ currentSpawnInterval = SPAWN_INTERVAL
    /\ scheduledSpawns = 0

NextOrder ==
    \E s \in WindowCells, e \in WindowCells : FindPathCall(s, e)

SpecOrder == InitOrder /\ [][NextOrder]_vars

----------------------------------------------------------------------------
(* SpecRouter: one call of findPath or findNearestRoad on every road        *)
(* network drawn in the PathW x PathH window                                *)

\* the positions handed to findNearestRoad: the window and the ring around it
RouterPositions == {Cell(x, y) : x \in -1..PathW, y \in -1..PathH}

\* the maxDistance arguments: the cell itself, its neighbours, and the radius
\* TrafficManager uses
RouterRadii == {0, 1, NearestRoadRadius}

\* mutant: the router takes the first segment out of the road
roadAfterReadsShift(segs) == IF segs = << >> THEN segs ELSE Tail(segs)

\* The road after the router's calls of hasSegment, getNeighbors and
\* getAllSegments: each builds its result from a copy (Array.from) and
\* assigns nothing to this.segments or to a segment's neighbors.
roadAfterReads(segs) == segs

\* Pathfinding.findPath(road, s, e), the road handed in by reference
RouterFindPath(s, e) ==
    /\ call = NoCall
    /\ call' = CallRec("findPath", s, e, findPath(segments, s, e), TRUE, 0)
    /\ segments' = roadAfterReads(segments)
    /\ UNCHANGED gameVars

\* Pathfinding.findNearestRoad(road, position, maxDistance); the record keeps
\* position in start, the cell returned in end (NoCell for null), whether
\* a cell was returned in ok, and maxDistance in house
RouterFindNearestRoad(position, maxDistance) ==
    LET nearest == findNearestRoad(segments, position, maxDistance)
    IN  /\ call = NoCall
        /\ call' = CallRec("findNearestRoad", position,
                           IF nearest = NoRoad THEN NoCell ELSE nearest,
                           << >>, nearest # NoRoad, maxDistance)
        /\ segments' = roadAfterReads(segments)
        /\ UNCHANGED gameVars

NextRouter ==
    \/ \E s \in PathCells, e \in PathCells : RouterFindPath(s, e)
    \/ \E position \in RouterPositions, maxDistance \in RouterRadii :
          RouterFindNearestRoad(position, maxDistance)

SpecRouter == InitPath /\ [][NextRouter]_vars

----------------------------------------------------------------------------
(* Spec: the traffic simulation on a built scenario *)

House(x, y, color) == [gridX |-> x, gridY |-> y, color |-> color]

Destination(x, y, color) == [gridX |-> x, gridY |-> y, color |-> color, waitingCars |-> 0]

\* a two-cell road between a red and a teal house on the left and a red and a
\* teal destination on the right
ScenarioRoad == BuildRoad(<< >>, << Cell(1, 1), Cell(2, 1) >>)
ScenarioHouses == << House(0, 0, Red), House(0, 3, Teal) >>
ScenarioDestinations == << Destination(3, 0, Red), Destination(3, 3, Teal) >>

\* the frame times, in milliseconds, a frame may take
Deltas == {160}

\* this.scene.time.delayedCall(CAR_SPAWN_DELAY, spawnCar): one more pending
\* firing for the house; the timer event is not stored anywhere
setupHouseSpawner(tm, h) == [tm EXCEPT ![h] = @ + 1]

\* TrafficManager.start: for (const house of houses) setupHouseSpawner
RECURSIVE startLoop(_, _)
startLoop(tm, hs) ==
    IF hs = << >> THEN tm
    ELSE startLoop(setupHouseSpawner(tm, hs[1]), Tail(hs))

\* TrafficManager.addHouse on the pair (timers, trackedHouses)
addHouse(t, h) ==
    IF h \notin t.tracked
    THEN [timers |-> setupHouseSpawner(t.timers, h), tracked |-> t.tracked \cup {h}]
    ELSE t

\* the polling callback of GameScene.create: for (const house of houses) addHouse
RECURSIVE pollLoop(_, _, _)
pollLoop(t, h, n) ==
    IF h > n THEN t
    ELSE pollLoop(addHouse(t, h), h + 1, n)

\* the scenario with a new TrafficManager: no house has a spawn loop yet
InitSched ==
    /\ segments = ScenarioRoad
    /\ call = NoCall
    /\ houses = ScenarioHouses
    /\ destinations = ScenarioDestinations
    /\ cars = << >>
    /\ timers = [h \in 1..Len(ScenarioHouses) |-> 0]
    /\ trackedHouses = {}
    /\ houseSpawnTimers = {}
    /\ state = "PLAYING"
    /\ score = 0
    /\ spawned = 0
    /\ retired = 0
    /\ destroyed = FALSE
    /\ startCalls = 0
    /\ endGameCalls = 0
    /\ isBuilding = FALSE
    /\ isErasing = FALSE
    /\ lastBuiltPos = NoCell
    /\ currentSpawnInterval = SPAWN_INTERVAL
    /\ scheduledSpawns = 0

\* the scenario once start(<< >>) has run and the polling timer has
\* registered the houses
Init ==
    /\ segments = ScenarioRoad
    /\ call = NoCall
    /\ houses = ScenarioHouses
    /\ destinations = ScenarioDestinations
    /\ cars = << >>
    /\ timers = pollLoop([timers |-> [h \in 1..Len(ScenarioHouses) |-> 0], tracked |-> {}],
                         1, Len(ScenarioHouses)).timers
    /\ trackedHouses = 1..Len(ScenarioHouses)
    /\ houseSpawnTimers = {}
    /\ state = "PLAYING"
    /\ score = 0
    /\ spawned = 0
    /\ retired = 0
    /\ destroyed = FALSE
    /\ startCalls = 1
    /\ endGameCalls = 0
    /\ isBuilding = FALSE
    /\ isErasing = FALSE
    /\ lastBuiltPos = NoCell
    /\ currentSpawnInterval = SPAWN_INTERVAL
    /\ scheduledSpawns = 0

\* trafficManager.start(hs, destinations), hs a list of houses
Start(hs) ==
    /\ startCalls < MaxStartCalls
    /\ startCalls' = startCalls + 1
    /\ timers' = startLoop(timers, hs)
    /\ call' = CallRec("start", NoCell, NoCell, << >>, TRUE, 0)
    /\ UNCHANGED <<builderVars, spawnVars, segments, houses, destinations, cars, trackedHouses, houseSpawnTimers,
                   state, score, spawned, retired, destroyed, endGameCalls>>

\* the 2000 ms polling timer of GameScene.create fires
PollHouses ==
    LET t == pollLoop([timers |-> timers, tracked |-> trackedHouses], 1, Len(houses))
    IN  /\ timers' = t.timers
        /\ trackedHouses' = t.tracked
        /\ call' = CallRec("addHouse", NoCell, NoCell, << >>, TRUE, 0)
        /\ UNCHANGED <<builderVars, spawnVars, segments, houses, destinations, cars, houseSpawnTimers,
                       state, score, spawned, retired, destroyed, startCalls, endGameCalls>>

\* a pending spawn timer of house h fires: spawnCar runs and, on every branch,
\* schedules the next firing with one delayedCall
SpawnCarStep(h) ==
    /\ timers[h] > 0
    /\ LET r == spawnCar(segments, destinations, cars, houses[h])
       IN  /\ cars' = r.cars
           /\ destinations' = r.dests
           /\ spawned' = spawned + (IF r.target # 0 THEN 1 ELSE 0)
           /\ call' = CallRec("spawnCar", NoCell, NoCell, << >>, r.target # 0, h)
    /\ timers' = [timers EXCEPT ![h] = (@ - 1) + spawnCar(segments, destinations, cars,
                                                           houses[h]).scheduled]
    /\ UNCHANGED <<builderVars, spawnVars, segments, houses, trackedHouses, houseSpawnTimers,
                   state, score, retired, destroyed, startCalls, endGameCalls>>

SpawnCarFires(h) == spawned < MaxSpawned /\ SpawnCarStep(h)

\* mutant: the frame does not look at the run state
isPlayingAlways(st) == TRUE

\* the test of "if (this.gameState.getState() !== GameState.PLAYING) return"
isPlaying(st) == st = "PLAYING"

\* GameScene.update(time, delta)
Update(delta) ==
    /\ call' = CallRec("update", NoCell, NoCell, << >>, state = "PLAYING", 0)
    /\ IF ~isPlaying(state)
       THEN UNCHANGED <<destinations, cars, state, score, retired, endGameCalls>>
       ELSE LET carsBefore == Len(cars)
                r == trafficUpdate(cars, destinations, delta)
                carsAfter == Len(r.cars)
                deliveries == carsBefore - carsAfter
                scored == IF deliveries > 0
                          THEN addScore(score, deliveries * POINTS_PER_DELIVERY)
                          ELSE score
                over == checkGameOver(r.dests)
            IN  /\ cars' = r.cars
                /\ destinations' = r.dests
                /\ retired' = retired + r.arrived
                /\ score' = scored
                /\ state' = IF over THEN endGame(RunState(state, scored)).state ELSE state
                /\ endGameCalls' = endGameCalls + (IF over THEN 1 ELSE 0)
    /\ UNCHANGED <<builderVars, spawnVars, segments, houses, timers, trackedHouses, houseSpawnTimers,
                   spawned, destroyed, startCalls>>

\* TrafficManager.destroy: destroys the timers held in houseSpawnTimers and
\* the cars
Destroy ==
    /\ ~destroyed
    /\ destroyed' = TRUE
    /\ timers' = [h \in DOMAIN timers |-> IF h \in houseSpawnTimers THEN 0 ELSE timers[h]]
    /\ houseSpawnTimers' = {}
    /\ cars' = << >>
    /\ call' = CallRec("destroy", NoCell, NoCell, << >>, TRUE, 0)
    /\ UNCHANGED <<builderVars, spawnVars, segments, houses, destinations, trackedHouses,
                   state, score, spawned, retired, startCalls, endGameCalls>>

\* the lists of houses a caller may pass to start: any set of the houses, in
\* list order
HouseLists ==
    {SelectSeq([i \in 1..Len(houses) |-> i], LAMBDA i : i \in hs) :
        hs \in SUBSET (1..Len(houses))}

\* spawn timers firing between frames
Next ==
    \/ \E h \in 1..Len(houses) : SpawnCarFires(h)
    \/ \E delta \in Deltas : Update(delta)

Spec == Init /\ [][Next]_vars

\* SpecSched: registration of houses and teardown around a short run
SchedSpawnCarFires(h) == spawned < MaxSchedSpawned /\ SpawnCarStep(h)

NextSched ==
    \/ \E hs \in HouseLists : Start(hs)
    \/ PollHouses
    \/ \E h \in 1..Len(houses) : SchedSpawnCarFires(h)
    \/ \E delta \in Deltas : Update(delta)
    \/ Destroy

SpecSched == InitSched /\ [][NextSched]_vars

----------------------------------------------------------------------------
(* SpecRun: the GameStateManager under any sequence of startGame, endGame    *)
(* and returnToMenu calls, around the frames and spawn timers of the scene   *)

\* a new GameStateManager and TrafficManager over the scenario
InitRun ==
    /\ segments = ScenarioRoad
    /\ call = NoCall
    /\ houses = ScenarioHouses
    /\ destinations = ScenarioDestinations
    /\ cars = << >>
    /\ timers = [h \in 1..Len(ScenarioHouses) |-> 0]
    /\ trackedHouses = {}
    /\ houseSpawnTimers = {}
    /\ state = NewGameState.state
    /\ score = NewGameState.score
    /\ spawned = 0
    /\ retired = 0
    /\ destroyed = FALSE
    /\ startCalls = 0
    /\ endGameCalls = 0
    /\ isBuilding = FALSE
    /\ isErasing = FALSE
    /\ lastBuiltPos = NoCell
    /\ currentSpawnInterval = SPAWN_INTERVAL
    /\ scheduledSpawns = 0

\* gameState.startGame()
StartGame ==
    /\ state' = startGame(RunState(state, score)).state
    /\ score' = startGame(RunState(state, score)).score
    /\ call' = CallRec("startGame", NoCell, NoCell, << >>, TRUE, 0)
    /\ UNCHANGED <<builderVars, spawnVars, segments, houses, destinations, cars, timers, trackedHouses,
                   houseSpawnTimers, spawned, retired, destroyed, startCalls, endGameCalls>>

\* gameState.endGame(), called from outside GameScene.update
EndGame ==
    /\ endGameCalls < MaxEndGameCalls
    /\ state' = endGame(RunState(state, score)).state
    /\ score' = endGame(RunState(state, score)).score
    /\ endGameCalls' = endGameCalls + 1
    /\ call' = CallRec("endGame", NoCell, NoCell, << >>, TRUE, 0)
    /\ UNCHANGED <<builderVars, spawnVars, segments, houses, destinations, cars, timers, trackedHouses,
                   houseSpawnTimers, spawned, retired, destroyed, startCalls>>

\* gameState.returnToMenu()
ReturnToMenu ==
    /\ state' = returnToMenu(RunState(state, score)).state
    /\ score' = returnToMenu(RunState(state, score)).score
    /\ call' = CallRec("returnToMenu", NoCell, NoCell, << >>, TRUE, 0)
    /\ UNCHANGED <<builderVars, spawnVars, segments, houses, destinations, cars, timers, trackedHouses,
                   houseSpawnTimers, spawned, retired, destroyed, startCalls, endGameCalls>>

RunSpawnCarFires(h) == spawned < MaxRunSpawned /\ SpawnCarStep(h)

NextRun ==
    \/ StartGame
    \/ EndGame
    \/ ReturnToMenu
    \/ PollHouses
    \/ \E h \in 1..Len(houses) : RunSpawnCarFires(h)
    \/ \E delta \in Deltas : Update(delta)

SpecRun == InitRun /\ [][NextRun]_vars

----------------------------------------------------------------------------
(* SpecLive: the scenario with frames of several lengths that keep occurring *)

\* the frame times, in milliseconds: 10 and 6.25 frames per second
LiveDeltas == {100, 160}

LiveSpawnCarFires(h) == spawned < MaxLiveSpawned /\ SpawnCarStep(h)

LiveUpdate == \E delta \in LiveDeltas : Update(delta)

NextLive ==
    \/ \E h \in 1..Len(houses) : LiveSpawnCarFires(h)
    \/ LiveUpdate

\* Phaser calls GameScene.update on every frame of the running scene
SpecLive == Init /\ [][NextLive]_vars /\ WF_vars(LiveUpdate)

----------------------------------------------------------------------------
(* SpecColors: spawn firings over houses and destinations of every colouring *)
(* and over several road networks                                            *)

Colors == {Red, Teal}

\* the cells the networks are drawn from, a row between houses and destinations
ColorRoadCells == {Cell(1, 1), Cell(2, 1), Cell(3, 1)}

InitColors ==
    /\ \E cs \in SUBSET ColorRoadCells :
          segments = BuildRoad(<< >>, CellOrder(cs, FALSE))
    /\ call = NoCall
    /\ \E c1 \in Colors, c2 \in Colors :
          houses = << House(0, 0, c1), House(0, 3, c2) >>
    /\ \E c1 \in Colors, c2 \in Colors :
          destinations = << Destination(3, 0, c1), Destination(3, 3, c2) >>
    /\ cars = << >>
    /\ timers = pollLoop([timers |-> [h \in 1..2 |-> 0], tracked |-> {}], 1, 2).timers
    /\ trackedHouses = 1..2
    /\ houseSpawnTimers = {}
    /\ state = "PLAYING"
    /\ score = 0
    /\ spawned = 0
    /\ retired = 0
    /\ destroyed = FALSE
    /\ startCalls = 1
    /\ endGameCalls = 0
    /\ isBuilding = FALSE
    /\ isErasing = FALSE
    /\ lastBuiltPos = NoCell
    /\ currentSpawnInterval = SPAWN_INTERVAL
    /\ scheduledSpawns = 0

ColorSpawnCarFires(h) == spawned < MaxColorSpawned /\ SpawnCarStep(h)

NextColors ==
    \/ \E h \in 1..Len(houses) : ColorSpawnCarFires(h)
    \/ \E delta \in Deltas : Update(delta)

SpecColors == InitColors /\ [][NextColors]_vars

----------------------------------------------------------------------------
(* SpecTarget: one house and two destinations on every network drawn on a   *)
(* row whose last cell can be cut off from the others                       *)

TargetRoadCells == {Cell(1, 1), Cell(2, 1), Cell(3, 1), Cell(4, 1)}

InitTarget ==
    /\ \E cs \in SUBSET TargetRoadCells, descending \in BOOLEAN :
          segments = BuildRoad(<< >>, CellOrder(cs, descending))
    /\ call = NoCall
    /\ houses = << House(0, 1, Red) >>
    /\ \E c1 \in Colors, c2 \in Colors :
          destinations = << Destination(4, 0, c1), Destination(2, 2, c2) >>
    /\ cars = << >>
    /\ timers = pollLoop([timers |-> [h \in 1..1 |-> 0], tracked |-> {}], 1, 1).timers
    /\ trackedHouses = 1..1
    /\ houseSpawnTimers = {}
    /\ state = "PLAYING"
    /\ score = 0
    /\ spawned = 0
    /\ retired = 0
    /\ destroyed = FALSE
    /\ startCalls = 1
    /\ endGameCalls = 0
    /\ isBuilding = FALSE
    /\ isErasing = FALSE
    /\ lastBuiltPos = NoCell
    /\ currentSpawnInterval = SPAWN_INTERVAL
    /\ scheduledSpawns = 0

TargetSpawnCarFires(h) == spawned < MaxTargetSpawned /\ SpawnCarStep(h)

NextTarget ==
    \/ \E h \in 1..Len(houses) : TargetSpawnCarFires(h)
    \/ \E delta \in Deltas : Update(delta)

SpecTarget == InitTarget /\ [][NextTarget]_vars

----------------------------------------------------------------------------
(* SpecCheck: checkGameOver on destination lists of every waiting count *)

\* the waiting counts tried: from none to one above the threshold
WaitingCounts == 0..(MAX_CARS_PER_DESTINATION + 1)

\* the destination lists tried: up to MaxDestinations destinations in a column
DestinationLists ==
    UNION {[1..n -> WaitingCounts] : n \in 0..MaxDestinations}

InitCheck ==
    /\ segments = << >>
    /\ call = NoCall
    /\ houses = << >>
    /\ \E ws \in DestinationLists :
          destinations = [d \in 1..Len(ws) |->
                             [Destination(3, 3 * (d - 1), Red) EXCEPT !.waitingCars = ws[d]]]
    /\ cars = << >>
    /\ timers = << >>
    /\ trackedHouses = {}
    /\ houseSpawnTimers = {}
    /\ state = "PLAYING"
    /\ score = 0
    /\ spawned = 0
    /\ retired = 0
    /\ destroyed = FALSE
    /\ startCalls = 0
    /\ endGameCalls = 0
    /\ isBuilding = FALSE
    /\ isErasing = FALSE
    /\ lastBuiltPos = NoCell
    /\ currentSpawnInterval = SPAWN_INTERVAL
    /\ scheduledSpawns = 0

\* gameState.checkGameOver(destinations)
CheckGameOverCall ==
    /\ call' = CallRec("checkGameOver", NoCell, NoCell, << >>, checkGameOver(destinations), 0)
    /\ UNCHANGED segments
    /\ UNCHANGED gameVars

NextCheck == CheckGameOverCall

SpecCheck == InitCheck /\ [][NextCheck]_vars

----------------------------------------------------------------------------
(* Grid and SpawnManager *)

\* Grid.isValidGridPosition on a grid of BoardW x BoardH cells
isValidGridPosition(x, y) == x >= 0 /\ x < BoardW /\ y >= 0 /\ y < BoardH

\* the cells Math.floor(Math.random() * width), Math.floor(Math.random() * height)
\* can give
BoardCells == {Cell(x, y) : x \in 0..(BoardW - 1), y \in 0..(BoardH - 1)}

\* "const minDistance = 3"
minDistance == 3

\* mutant: only roads and houses are looked at, destinations are not
isValidSpawnPositionHousesOnly(segs, hs, ds, x, y) ==
    /\ ~hasSegment(segs, x, y)
    /\ \A i \in 1..Len(hs) : ~(Abs(hs[i].gridX - x) + Abs(hs[i].gridY - y) < minDistance)

\* SpawnManager.isValidSpawnPosition
isValidSpawnPosition(segs, hs, ds, x, y) ==
    /\ ~hasSegment(segs, x, y)
    /\ \A i \in 1..Len(hs) : ~(Abs(hs[i].gridX - x) + Abs(hs[i].gridY - y) < minDistance)
    /\ \A i \in 1..Len(ds) : ~(Abs(ds[i].gridX - x) + Abs(ds[i].gridY - y) < minDistance)

\* SpawnManager.findValidSpawnPosition over the cells the random draws give,
\* from attempt number attempt + 1; NoCell for null
RECURSIVE findValidSpawnPosition(_, _, _, _, _)
findValidSpawnPosition(segs, hs, ds, draws, attempt) ==
    IF ~(attempt < MaxAttempts) THEN NoCell
    ELSE LET c == draws[attempt + 1]
         IN  IF isValidSpawnPosition(segs, hs, ds, c.gridX, c.gridY) THEN c
             ELSE findValidSpawnPosition(segs, hs, ds, draws, attempt + 1)

\* mutant: a house is pushed at the corner cell when no position was found
spawnHouseAnyway(hs, position, color) ==
    IF position = NoCell THEN Append(hs, House(0, 0, color))
    ELSE Append(hs, House(position.gridX, position.gridY, color))

\* SpawnManager.spawnHouse with the position found and the colour drawn
spawnHouse(hs, position, color) ==
    IF position = NoCell THEN hs
    ELSE Append(hs, House(position.gridX, position.gridY, color))

\* SpawnManager.spawnDestination with the position found and the colour drawn
spawnDestination(ds, position, color) ==
    IF position = NoCell THEN ds
    ELSE Append(ds, Destination(position.gridX, position.gridY, color))

\* mutant: the interval is decreased without the floor
scheduleNextSpawnNoFloor(interval) == interval - SPAWN_INTERVAL_DECREASE

\* SpawnManager.scheduleNextSpawn: the interval of the next delayedCall
scheduleNextSpawn(interval) ==
    IF interval - SPAWN_INTERVAL_DECREASE > MIN_SPAWN_INTERVAL
    THEN interval - SPAWN_INTERVAL_DECREASE
    ELSE MIN_SPAWN_INTERVAL

\* the draws of one call of findValidSpawnPosition: any first cell, then
\* either the same cell or the corner cell on every later attempt
DrawLists ==
    UNION {{[i \in 1..MaxAttempts |-> IF i = 1 THEN a ELSE b] : b \in {a, Cell(0, 0)}} :
              a \in BoardCells}

\* the firings of the building spawn timer so far
BuildingSpawns == (SPAWN_INTERVAL - currentSpawnInterval) \div SPAWN_INTERVAL_DECREASE

\* mutant: a house is spawned only when there are fewer houses
shouldSpawnHouseFewer(hs, ds) == Len(hs) < Len(ds)

\* "const shouldSpawnHouse = this.houses.length <= this.destinations.length"
shouldSpawnHouse(hs, ds) == Len(hs) <= Len(ds)

\* the building spawn timer fires: spawnBuilding(), then scheduleNextSpawn()
SpawnBuilding(draws, color) ==
    LET houseTurn == shouldSpawnHouse(houses, destinations)
        position == findValidSpawnPosition(segments, houses, destinations, draws, 0)
    IN  /\ houses' = IF houseTurn THEN spawnHouse(houses, position, color)
                     ELSE houses
        /\ destinations' = IF houseTurn THEN destinations
                           ELSE spawnDestination(destinations, position, color)
        /\ currentSpawnInterval' = scheduleNextSpawn(currentSpawnInterval)
        /\ scheduledSpawns' = scheduledSpawns + 1
        /\ call' = CallRec("spawnBuilding", NoCell, position, << >>, position # NoCell, 0)
        /\ UNCHANGED <<builderVars, segments, cars, timers, trackedHouses, houseSpawnTimers,
                       state, score, spawned, retired, destroyed, startCalls, endGameCalls>>

\* the colours drawn for new buildings
BuildingColors == {Red}

----------------------------------------------------------------------------
(* SpecPlace: building spawns on a board that holds a short road *)

PlaceRoadCells == {Cell(1, 1)}

InitPlace ==
    /\ \E cs \in SUBSET PlaceRoadCells :
          segments = BuildRoad(<< >>, CellOrder(cs, FALSE))
    /\ call = NoCall
    /\ houses = << >>
    /\ destinations = << >>
    /\ cars = << >>
    /\ timers = << >>
    /\ trackedHouses = {}
    /\ houseSpawnTimers = {}
    /\ state = "PLAYING"
    /\ score = 0
    /\ spawned = 0
    /\ retired = 0
    /\ destroyed = FALSE
    /\ startCalls = 0
    /\ endGameCalls = 0
    /\ isBuilding = FALSE
    /\ isErasing = FALSE
    /\ lastBuiltPos = NoCell
    /\ currentSpawnInterval = SPAWN_INTERVAL
    /\ scheduledSpawns = 0

PlaceSpawnBuilding(draws, color) ==
    /\ BuildingSpawns < MaxBuildingSpawns
    /\ SpawnBuilding(draws, color)

NextPlace ==
    \E draws \in DrawLists, color \in BuildingColors : PlaceSpawnBuilding(draws, color)

SpecPlace == InitPlace /\ [][NextPlace]_vars

----------------------------------------------------------------------------
(* SpecCadence: the building spawn timer over a long run, the draws falling *)
(* on two opposite corners of the board                                     *)

\* the draws of one call of findValidSpawnPosition: one corner on every
\* attempt
CadenceDraws ==
    {[i \in 1..MaxAttempts |-> c] : c \in {Cell(0, 0), Cell(BoardW - 1, BoardH - 1)}}

CadenceSpawnBuilding(draws, color) ==
    /\ scheduledSpawns < MaxScheduledSpawns
    /\ SpawnBuilding(draws, color)

NextCadence ==
    \E draws \in CadenceDraws, color \in BuildingColors : CadenceSpawnBuilding(draws, color)

SpecCadence == InitPlace /\ [][NextCadence]_vars

----------------------------------------------------------------------------
(* RoadBuilder *)

\* Grid.worldToGrid, one coordinate, in pixels
worldToGrid(v) == v \div GRID_SIZE

\* the cell under a pointer position <<x, y>>
PointerCell(pt) == Cell(worldToGrid(pt[1]), worldToGrid(pt[2]))

\* the while (true) loop of getPathBetween
RECURSIVE lineLoop(_, _, _, _, _, _, _, _, _, _)
lineLoop(path, x0, y0, x1, y1, dx, dy, sx, sy, err) ==
    LET pushed == Append(path, Cell(x0, y0))
        e2 == 2 * err
        stepX == e2 > -dy
        errX == IF stepX THEN err - dy ELSE err
        nx == IF stepX THEN x0 + sx ELSE x0
        stepY == e2 < dx
        errY == IF stepY THEN errX + dx ELSE errX
        ny == IF stepY THEN y0 + sy ELSE y0
    IN  IF x0 = x1 /\ y0 = y1 THEN pushed
        ELSE lineLoop(pushed, nx, ny, x1, y1, dx, dy, sx, sy, errY)

\* RoadBuilder.getPathBetween
getPathBetween(start, end) ==
    LET dx == Abs(end.gridX - start.gridX)
        dy == Abs(end.gridY - start.gridY)
        sx == IF start.gridX < end.gridX THEN 1 ELSE -1
        sy == IF start.gridY < end.gridY THEN 1 ELSE -1
    IN  lineLoop(<< >>, start.gridX, start.gridY, end.gridX, end.gridY, dx, dy, sx, sy, dx - dy)

\* RoadBuilder.eraseAt: the network after it
eraseAt(segs, pt) ==
    LET gridPos == PointerCell(pt)
    IN  IF isValidGridPosition(gridPos.gridX, gridPos.gridY)
           /\ hasSegment(segs, gridPos.gridX, gridPos.gridY)
        THEN removeSegment(segs, gridPos.gridX, gridPos.gridY)
        ELSE segs

\* the builder's fields and the network, as one record
Builder(segs, building, last) == [segments |-> segs, isBuilding |-> building, lastBuiltPos |-> last]

\* RoadBuilder.startBuilding
startBuilding(b, pt, upgradeSelected) ==
    LET gridPos == PointerCell(pt)
    IN  IF upgradeSelected THEN b
        ELSE IF ~isValidGridPosition(gridPos.gridX, gridPos.gridY) THEN b
        ELSE Builder(addSegment(b.segments, gridPos.gridX, gridPos.gridY), TRUE, gridPos)

\* RoadBuilder.continueBuilding
continueBuilding(b, pt) ==
    LET currentGridPos == PointerCell(pt)
    IN  IF ~b.isBuilding \/ b.lastBuiltPos = NoCell THEN b
        ELSE IF ~isValidGridPosition(currentGridPos.gridX, currentGridPos.gridY) THEN b
        ELSE IF currentGridPos # b.lastBuiltPos
        THEN Builder(BuildRoad(b.segments, getPathBetween(b.lastBuiltPos, currentGridPos)),
                     TRUE, currentGridPos)
        ELSE b

\* RoadBuilder.stopBuilding
stopBuilding(b) == Builder(b.segments, FALSE, NoCell)

\* mutant: a vehicle whose path crosses a cell that is no longer a road is
\* taken out of the list
carsAfterRoadChangeDropped(cs, segs) ==
    SelectSeq(cs, LAMBDA c : \A k \in 1..Len(c.path) :
                                hasSegment(segs, c.path[k].gridX, c.path[k].gridY))

\* The vehicle list after the road changed under a pointer handler:
\* Road.addSegment and Road.removeSegment write this.segments and the
\* neighbour sets and call render(); a Car holds its own path array and no
\* reference to the road.
carsAfterRoadChange(cs, segs) == cs

\* the handler of 'pointerdown'
PointerDown(button, pt, upgradeSelected) ==
    LET b == Builder(segments, isBuilding, lastBuiltPos)
        started == startBuilding(b, pt, upgradeSelected)
    IN  /\ segments' = IF button = "right" THEN eraseAt(segments, pt)
                       ELSE IF button = "left" THEN started.segments
                       ELSE segments
        /\ isErasing' = IF button = "right" THEN TRUE ELSE isErasing
        /\ isBuilding' = IF button = "left" THEN started.isBuilding ELSE isBuilding
        /\ lastBuiltPos' = IF button = "left" THEN started.lastBuiltPos ELSE lastBuiltPos
        /\ cars' = carsAfterRoadChange(cars, segments')
        /\ call' = CallRec("pointerdown", NoCell, PointerCell(pt), << >>, segments' # segments, 0)
        /\ UNCHANGED <<houses, destinations, timers, trackedHouses, houseSpawnTimers,
                       state, score, spawned, retired, destroyed, startCalls, endGameCalls,
                       spawnVars>>

\* the handler of 'pointermove', a button being held while a drag or an
\* erasure is under way
PointerMove(pt) ==
    LET b == Builder(segments, isBuilding, lastBuiltPos)
        continued == continueBuilding(b, pt)
    IN  /\ segments' = IF isErasing THEN eraseAt(segments, pt)
                       ELSE IF isBuilding THEN continued.segments
                       ELSE segments
        /\ isBuilding' = IF ~isErasing /\ isBuilding THEN continued.isBuilding ELSE isBuilding
        /\ lastBuiltPos' = IF ~isErasing /\ isBuilding THEN continued.lastBuiltPos
                           ELSE lastBuiltPos
        /\ call' = CallRec("pointermove", lastBuiltPos, PointerCell(pt), << >>,
                           segments' # segments, 0)
        /\ cars' = carsAfterRoadChange(cars, segments')
        /\ UNCHANGED <<isErasing, houses, destinations, timers, trackedHouses,
                       houseSpawnTimers, state, score, spawned, retired, destroyed,
                       startCalls, endGameCalls, spawnVars>>

\* the handler of 'pointerup'
PointerUp ==
    LET b == Builder(segments, isBuilding, lastBuiltPos)
        stopped == IF isBuilding THEN stopBuilding(b) ELSE b
    IN  /\ isBuilding' = stopped.isBuilding
        /\ lastBuiltPos' = stopped.lastBuiltPos
        /\ isErasing' = FALSE
        /\ call' = CallRec("pointerup", NoCell, NoCell, << >>, TRUE, 0)
        /\ UNCHANGED <<segments, houses, destinations, cars, timers, trackedHouses,
                       houseSpawnTimers, state, score, spawned, retired, destroyed,
                       startCalls, endGameCalls, spawnVars>>

----------------------------------------------------------------------------
(* SpecTransit: the road is erased and redrawn while vehicles are on it     *)

\* the pointer positions of the presses and drags, in pixels: in the two
\* cells (1,1) and (2,1) of the scenario's road
TransitPoints == {<<30, 30>>, <<60, 30>>}

TransitSpawnCarFires(h) == spawned < MaxTransitSpawned /\ SpawnCarStep(h)

TransitPointerMove(pt) == (isErasing \/ isBuilding) /\ PointerMove(pt)

NextTransit ==
    \/ \E h \in 1..Len(houses) : TransitSpawnCarFires(h)
    \/ \E delta \in Deltas : Update(delta)
    \/ \E button \in {"left", "right"}, pt \in TransitPoints : PointerDown(button, pt, FALSE)
    \/ \E pt \in TransitPoints : TransitPointerMove(pt)
    \/ PointerUp

SpecTransit == Init /\ [][NextTransit]_vars

----------------------------------------------------------------------------
(* SpecBuild: building spawns interleaved with the player's drawing and      *)
(* erasing of roads                                                          *)

\* the pointer positions tried, in pixels: in the cells (0,0), (1,1), (2,0)
\* and left of the board
PointerPoints == {<<10, 10>>, <<30, 40>>, <<60, 10>>, <<-5, 10>>}

Buttons == {"left", "right", "middle"}

InitBuild ==
    /\ segments = << >>
    /\ call = NoCall
    /\ houses = << >>
    /\ destinations = << >>
    /\ cars = << >>
    /\ timers = << >>
    /\ trackedHouses = {}
    /\ houseSpawnTimers = {}
    /\ state = "PLAYING"
    /\ score = 0
    /\ spawned = 0
    /\ retired = 0
    /\ destroyed = FALSE
    /\ startCalls = 0
    /\ endGameCalls = 0
    /\ isBuilding = FALSE
    /\ isErasing = FALSE
    /\ lastBuiltPos = NoCell
    /\ currentSpawnInterval = SPAWN_INTERVAL
    /\ scheduledSpawns = 0

BuildSpawnBuilding(draws, color) ==
    /\ BuildingSpawns < MaxBuildSpawns
    /\ SpawnBuilding(draws, color)

BuildPointerDown(button, pt, upgradeSelected) ==
    /\ PointerDown(button, pt, upgradeSelected)
    /\ Len(segments') <= MaxBuildSegments

BuildPointerMove(pt) ==
    /\ isErasing \/ isBuilding
    /\ PointerMove(pt)
    /\ Len(segments') <= MaxBuildSegments

NextBuild ==
    \/ \E draws \in DrawLists, color \in BuildingColors : BuildSpawnBuilding(draws, color)
    \/ \E button \in Buttons, pt \in PointerPoints, upgradeSelected \in BOOLEAN :
          BuildPointerDown(button, pt, upgradeSelected)
    \/ \E pt \in PointerPoints : BuildPointerMove(pt)
    \/ PointerUp

SpecBuild == InitBuild /\ [][NextBuild]_vars

----------------------------------------------------------------------------
(* Properties of the road network (SpecRoad) *)

OccupiedCells(segs) == {Cell(segs[i].gridX, segs[i].gridY) : i \in 1..Len(segs)}

Adjacent4(a, b) == Abs(a.gridX - b.gridX) + Abs(a.gridY - b.gridY) = 1

NeighborCells(seg) == {ParseKey(seg.neighbors[i]) : i \in 1..Len(seg.neighbors)}

\* breadth-first distance over 4-adjacent occupied cells; -1 when unreachable
RECURSIVE BfsDistance(_, _, _, _, _)
BfsDistance(frontier, seen, target, d, occ) ==
    IF target \in frontier THEN d
    ELSE IF frontier = {} THEN -1
    ELSE LET next == {c \in occ \ seen : \E f \in frontier : Adjacent4(f, c)}
         IN  BfsDistance(next, seen \cup next, target, d + 1, occ)

ShortestDistance(segs, s, e) ==
    IF s \notin OccupiedCells(segs) THEN -1
    ELSE BfsDistance({s}, {s}, e, 0, OccupiedCells(segs))

\* C4: graph symmetry. For every two occupied 4-adjacent cells A and B, after
\* every addSegment / removeSegment, A lists B as a neighbour iff B lists A.
C4_GraphSymmetry ==
    \A i \in 1..Len(segments), j \in 1..Len(segments) :
        Adjacent4(segments[i], segments[j]) =>
            (segments[j].key \in Range(segments[i].neighbors)
                <=> segments[i].key \in Range(segments[j].neighbors))

\* a removal has happened and two adjacent occupied cells list each other
C4_Witness ==
    /\ call.op = "removeSegment" /\ call.ok
    /\ \E i \in 1..Len(segments), j \in 1..Len(segments) :
          /\ Adjacent4(segments[i], segments[j])
          /\ segments[j].key \in Range(segments[i].neighbors)
          /\ segments[i].key \in Range(segments[j].neighbors)

\* C5: the neighbour set of every occupied cell is exactly the set of the
\* occupied cells at 4-adjacency to it: no entry for a removed or non-adjacent
\* cell, no adjacent occupied cell missing.
C5_NeighborsAreAdjacentOccupied ==
    \A i \in 1..Len(segments) :
        NeighborCells(segments[i]) =
            {c \in OccupiedCells(segments) : Adjacent4(segments[i], c)}

\* a cell with a neighbour has been removed and its former neighbour remains
C5_Witness ==
    /\ call.op = "removeSegment" /\ call.ok
    /\ \E c \in OccupiedCells(segments) : Adjacent4(c, call.start)

\* C6: shortest-path optimality. For connected occupied start and end the
\* path findPath returns has as many edges as the breadth-first distance.
C6_ShortestPath ==
    (/\ call.op = "findPath"
     /\ call.start \in OccupiedCells(segments)
     /\ call.end \in OccupiedCells(segments)
     /\ ShortestDistance(segments, call.start, call.end) >= 0)
    => Len(call.path) - 1 = ShortestDistance(segments, call.start, call.end)

\* a path of three edges was returned on a network that holds a cycle
C6_Witness ==
    /\ call.op = "findPath"
    /\ Len(call.path) = 4
    /\ \E c \in OccupiedCells(segments) :
          /\ c \notin Range(call.path)
          /\ Cardinality({n \in OccupiedCells(segments) : Adjacent4(c, n)}) >= 2

\* C7: for occupied start # end, findPath returns a non-empty path iff end is
\* reachable from start; a non-empty result begins with start, ends with end
\* and steps between 4-adjacent occupied cells.
C7_PathIffReachable ==
    (/\ call.op = "findPath"
     /\ call.start \in OccupiedCells(segments)
     /\ call.end \in OccupiedCells(segments)
     /\ call.start # call.end)
    => /\ Len(call.path) > 0 <=> ShortestDistance(segments, call.start, call.end) >= 0
       /\ Len(call.path) > 0 =>
            /\ call.path[1] = call.start
            /\ call.path[Len(call.path)] = call.end
            /\ \A i \in 1..Len(call.path) : call.path[i] \in OccupiedCells(segments)
            /\ \A i \in 1..(Len(call.path) - 1) : Adjacent4(call.path[i], call.path[i + 1])

\* start and end lie in different components and the result was empty
C7_Witness ==
    /\ call.op = "findPath"
    /\ call.start \in OccupiedCells(segments)
    /\ call.end \in OccupiedCells(segments)
    /\ call.start # call.end
    /\ ShortestDistance(segments, call.start, call.end) = -1
    /\ call.path = << >>

\* C8: findPath returns the empty sequence when start or end is not an
\* occupied cell, and exactly <<start>> when start = end is occupied.
C8_Preconditions ==
    call.op = "findPath" =>
        /\ (call.start \notin OccupiedCells(segments) \/ call.end \notin OccupiedCells(segments))
              => call.path = << >>
        /\ (call.start = call.end /\ call.start \in OccupiedCells(segments))
              => call.path = << call.start >>

\* findPath was called with start = end on an unoccupied cell
C8_Witness ==
    /\ call.op = "findPath"
    /\ call.start = call.end
    /\ call.start \notin OccupiedCells(segments)
    /\ Len(segments) > 0
    /\ call.path = << >>

----------------------------------------------------------------------------
(* Properties of the traffic simulation (Spec, SpecSched) *)

AtCapacity == \E d \in 1..Len(destinations) :
                 destinations[d].waitingCars >= MAX_CARS_PER_DESTINATION

\* the number of live vehicles whose target is the cell of destination d
TargetCount(cs, d) ==
    Cardinality({i \in 1..Len(cs) : cs[i].targetDestination = getGridPosition(destinations[d])})

\* C1 as stated: if some destination's waitingCount is at or above
\* MAX_CARS_PER_DESTINATION while the run is Running, the next frame
\* (GameScene.update) ends the run, whatever arrives during that frame.
C1_EndedByNextFrame ==
    [][(state = "PLAYING" /\ AtCapacity /\ call'.op = "update") => state' = "GAME_OVER"]_vars

\* C1 amended: at the end of every frame the run is Ended exactly when some
\* destination's waitingCount, after the arrivals of that frame, is at or
\* above MAX_CARS_PER_DESTINATION.
C1_EndedIffAtCapacityAfterFrame ==
    call.op = "update" => (state = "GAME_OVER" <=> AtCapacity)

\* a frame has just ended the run while vehicles were still in transit
C1_Witness ==
    /\ call.op = "update" /\ call.ok
    /\ state = "GAME_OVER"
    /\ AtCapacity
    /\ Len(cars) >= MAX_CARS_PER_DESTINATION

\* C2: delivery conservation. Vehicles ever spawned minus vehicles live equals
\* vehicles retired on arrival, and the score is POINTS_PER_DELIVERY per
\* retired vehicle, in every state of every interleaving of spawn firings and
\* frames.
C2_DeliveryConservation ==
    /\ spawned - Len(cars) = retired
    /\ score = retired * POINTS_PER_DELIVERY

\* deliveries were made in at least two frames and vehicles are in transit
C2_Witness ==
    /\ retired >= 2
    /\ score >= 2 * POINTS_PER_DELIVERY
    /\ Len(cars) >= 1
    /\ spawned >= 3
    /\ call.op = "update"

\* C3: waitingCount is never negative; a spawn raises the count of the
\* spawned vehicle's target by exactly 1 and no other count; a frame lowers
\* each destination's count by exactly 1 per vehicle retired at it, and no
\* other count.
C3_WaitingCountSteps ==
    [][\A d \in 1..Len(destinations) :
          /\ destinations[d].waitingCars >= 0
          /\ destinations'[d].waitingCars >= 0
          /\ call'.op = "spawnCar" =>
                destinations'[d].waitingCars - destinations[d].waitingCars =
                    (IF call'.ok /\ cars'[Len(cars')].targetDestination
                                       = getGridPosition(destinations[d])
                     THEN 1 ELSE 0)
          /\ call'.op = "update" =>
                destinations'[d].waitingCars - destinations[d].waitingCars =
                    TargetCount(cars', d) - TargetCount(cars, d)]_vars

\* a frame has retired a vehicle while both destinations had vehicles waiting
C3_Witness ==
    /\ call.op = "update"
    /\ retired >= 1
    /\ \A d \in 1..Len(destinations) : destinations[d].waitingCars >= 1
    /\ \E d \in 1..Len(destinations) : destinations[d].waitingCars = 1

\* C9: every house has at most one pending spawn timer after any sequence of
\* start and addHouse calls.
C9_AtMostOneSpawnLoop ==
    \A h \in 1..Len(houses) : timers[h] <= 1

\* C10: after TrafficManager.destroy() no spawn callback runs, no vehicle is
\* created and no waitingCount changes.
C10_InertAfterDestroy ==
    [][destroyed => (/\ call'.op # "spawnCar"
                     /\ spawned' = spawned
                     /\ cars' = cars
                     /\ destinations' = destinations)]_vars

----------------------------------------------------------------------------
(* Properties of the run state (SpecRun) *)

StateRank(st) == IF st = "MENU" THEN 0 ELSE IF st = "PLAYING" THEN 1 ELSE 2

\* C11 as stated: under any sequence of startGame, endGame and returnToMenu
\* calls the run state never moves backward (Ended to Running or NotStarted,
\* Running to NotStarted) and never from NotStarted directly to Ended.
C11_Monotonic ==
    [][/\ StateRank(state') >= StateRank(state)
       /\ ~(state = "MENU" /\ state' = "GAME_OVER")]_vars

\* C11 amended: each of the three calls sets the state whatever it was:
\* startGame sets Running and the score to 0, endGame sets Ended,
\* returnToMenu sets NotStarted, both leaving the score; the only change of
\* state a frame (GameScene.update) or a spawn firing makes is Running to
\* Ended, made by a frame.
C11_CallsSetState ==
    [][/\ call'.op = "startGame" => (state' = "PLAYING" /\ score' = 0)
       /\ call'.op = "endGame" => (state' = "GAME_OVER" /\ score' = score)
       /\ call'.op = "returnToMenu" => (state' = "MENU" /\ score' = score)
       /\ call'.op \notin {"startGame", "endGame", "returnToMenu"} =>
             \/ state' = state
             \/ call'.op = "update" /\ state = "PLAYING" /\ state' = "GAME_OVER"]_vars

\* returnToMenu has moved a run that had scored back to NotStarted
C11_Witness ==
    /\ call.op = "returnToMenu"
    /\ state = "MENU"
    /\ score >= POINTS_PER_DELIVERY
    /\ endGameCalls >= 1

----------------------------------------------------------------------------
(* Properties of vehicle motion (SpecLive) *)

\* C12: provided frames keep occurring, whatever their length, every spawned
\* vehicle eventually arrives and is retired: once n vehicles have been
\* spawned, eventually n have been retired, the score is n times
\* POINTS_PER_DELIVERY and, once all are retired, no vehicle is waited for.
C12_EveryVehicleArrives ==
    \A n \in 1..MaxLiveSpawned :
        (spawned >= n) ~> (/\ retired >= n
                           /\ score >= n * POINTS_PER_DELIVERY
                           /\ (Len(cars) = 0 =>
                                 \A d \in 1..Len(destinations) :
                                     destinations[d].waitingCars = 0))

----------------------------------------------------------------------------
(* Properties of the spawn callback (SpecColors) *)

DestinationsOfColor(color) ==
    {d \in 1..Len(destinations) : destinations[d].color = color}

\* C13: a vehicle is only spawned toward a destination of the spawning
\* house's colour, and carries that colour; a firing for a house with no
\* destination of its colour spawns nothing and changes no waitingCount and
\* no score, on every road network.
C13_SpawnsOnlyToOwnColor ==
    [][call'.op = "spawnCar" =>
          LET house == houses[call'.house]
          IN  /\ call'.ok =>
                    LET car == cars'[Len(cars')]
                    IN  /\ car.color = house.color
                        /\ \E d \in DestinationsOfColor(house.color) :
                              /\ getGridPosition(destinations[d]) = car.targetDestination
                              /\ destinations'[d].waitingCars = destinations[d].waitingCars + 1
              /\ DestinationsOfColor(house.color) = {} =>
                    /\ ~call'.ok
                    /\ cars' = cars
                    /\ destinations' = destinations
                    /\ score' = score
                    /\ spawned' = spawned]_vars

\* a house with no destination of its colour has fired without spawning, on a
\* network over which the other house has spawned a vehicle
C13_Witness ==
    /\ call.op = "spawnCar" /\ ~call.ok
    /\ DestinationsOfColor(houses[call.house].color) = {}
    /\ findNearestRoad(segments, getGridPosition(houses[call.house]), NearestRoadRadius) # NoRoad
    /\ spawned >= 1

\* the outcome of a firing for house h in the current state
SpawnOutcome(h) ==
    LET matching == matchingDestinations(destinations, houses[h])
        nearestRoad == findNearestRoad(segments, getGridPosition(houses[h]), NearestRoadRadius)
    IN  IF Len(matching) = 0 THEN "noMatch"
        ELSE IF nearestRoad = NoRoad THEN "noRoad"
        ELSE IF chooseTarget(segments, destinations, matching, 1, nearestRoad).target = 0
        THEN "noPath"
        ELSE "spawn"

----------------------------------------------------------------------------
(* Properties of checkGameOver (SpecCheck) *)

----------------------------------------------------------------------------
(* Properties of building placement (SpecPlace, SpecBuild) *)

\* the cells of the buildings, houses first
BuildingCells ==
    [i \in 1..(Len(houses) + Len(destinations)) |->
        IF i <= Len(houses) THEN getGridPosition(houses[i])
        ELSE getGridPosition(destinations[i - Len(houses)])]

\* C16: after any number of building spawns, successful or not, every two
\* distinct buildings (house-house, house-destination, destination-
\* destination) are at Manhattan distance >= 3.
C16_Spacing ==
    \A i \in 1..Len(BuildingCells), j \in 1..Len(BuildingCells) :
        i # j => heuristic(BuildingCells[i], BuildingCells[j]) >= 3

\* two houses and a destination stand, two of them exactly 3 apart, and the
\* last spawn found no valid cell
C16_Witness ==
    /\ Len(houses) = 2 /\ Len(destinations) = 1
    /\ heuristic(getGridPosition(houses[1]), getGridPosition(houses[2])) = 3
    /\ call.op = "spawnBuilding" /\ ~call.ok

\* C17: in every interleaving of building placement with the player's road
\* building and erasing, no house's or destination's cell is an occupied road
\* cell.
C17_NoBuildingOnRoad ==
    \A i \in 1..Len(BuildingCells) :
        ~hasSegment(segments, BuildingCells[i].gridX, BuildingCells[i].gridY)

----------------------------------------------------------------------------
(* Properties of the ended run (Spec) *)

\* C18: once the run is Ended, every later frame (GameScene.update) leaves
\* the score, the live vehicle list with every vehicle's position and
\* pathIndex, the waiting counts and the run state unchanged, and endGame is
\* invoked at most once in a run.
C18_FramesInertOnceEnded ==
    [][/\ (state = "GAME_OVER" /\ call'.op = "update") =>
             /\ score' = score
             /\ cars' = cars
             /\ destinations' = destinations
             /\ retired' = retired
             /\ state' = "GAME_OVER"
             /\ endGameCalls' = endGameCalls
       /\ endGameCalls' <= 1]_vars

\* a frame has run on an ended run that holds vehicles in transit
C18_Witness ==
    /\ call.op = "update" /\ ~call.ok
    /\ state = "GAME_OVER"
    /\ endGameCalls = 1
    /\ Len(cars) >= 1

\* C19: once the run is Ended no spawn callback creates a vehicle or raises
\* a waitingCount.
C19_NoSpawnOnceEnded ==
    [][state = "GAME_OVER" =>
          /\ spawned' = spawned
          /\ Len(cars') = Len(cars)
          /\ \A d \in 1..Len(destinations) :
                destinations'[d].waitingCars <= destinations[d].waitingCars]_vars

\* What TrafficManager.spawnCar does on an ended run: the callbacks still
\* fire, and a firing that finds a route appends one vehicle and raises its
\* target's waitingCount by one; no step changes the run state, the score,
\* the number retired or any vehicle already in the list.
SpawnsUnprocessedOnceEnded ==
    [][state = "GAME_OVER" =>
          /\ state' = "GAME_OVER"
          /\ score' = score
          /\ retired' = retired
          /\ Len(cars') >= Len(cars)
          /\ SubSeq(cars', 1, Len(cars)) = cars
          /\ \A d \in 1..Len(destinations) :
                destinations'[d].waitingCars >= destinations[d].waitingCars
          /\ call'.op = "spawnCar" =>
                /\ call'.ok <=> SpawnOutcome(call'.house) = "spawn"
                /\ call'.ok =>
                      /\ Len(cars') = Len(cars) + 1
                      /\ \E d \in 1..Len(destinations) :
                            /\ getGridPosition(destinations[d]) =
                                  cars'[Len(cars')].targetDestination
                            /\ destinations'[d].waitingCars =
                                  destinations[d].waitingCars + 1]_vars

\* a spawn callback has created a vehicle on an ended run
SpawnedOnceEnded ==
    /\ state = "GAME_OVER"
    /\ endGameCalls = 1
    /\ call.op = "spawnCar" /\ call.ok
    /\ \E d \in 1..Len(destinations) :
          destinations[d].waitingCars > MAX_CARS_PER_DESTINATION

----------------------------------------------------------------------------
(* Properties of addSegment (SpecRoad) *)

NeighborsOf(segs, c) == Range(getSegment(segs, KeyOf(c)).neighbors)

\* C20: addSegment on an occupied cell returns false and leaves the occupied
\* cells and every neighbour set as they were; on an unoccupied cell it
\* returns true, makes the cell occupied, links it in both directions with
\* every occupied 4-adjacent cell and leaves every other link as it was.
C20_AddSegment ==
    [][call'.op = "addSegment" =>
          LET c == call'.start
              occ == OccupiedCells(segments)
              adj == {n \in occ : Adjacent4(c, n)}
          IN  IF c \in occ
              THEN /\ ~call'.ok
                   /\ segments' = segments
              ELSE /\ call'.ok
                   /\ Len(segments') = Len(segments) + 1
                   /\ OccupiedCells(segments') = occ \cup {c}
                   /\ NeighborsOf(segments', c) = {KeyOf(n) : n \in adj}
                   /\ \A n \in occ :
                         NeighborsOf(segments', n) =
                             NeighborsOf(segments, n) \cup
                                 (IF n \in adj THEN {KeyOf(c)} ELSE {})]_vars

\* addSegment was refused on an occupied cell that has two neighbours
C20_Witness ==
    /\ call.op = "addSegment" /\ ~call.ok
    /\ call.start \in OccupiedCells(segments)
    /\ Cardinality(NeighborsOf(segments, call.start)) = 2

\* C21: removeSegment on an absent cell returns false and leaves the whole
\* network as it was; on an occupied cell it returns true, makes the cell
\* unoccupied, deletes it from the neighbour set of every former neighbour
\* and leaves every other link as it was.
C21_RemoveSegment ==
    [][call'.op = "removeSegment" =>
          LET c == call'.start
              occ == OccupiedCells(segments)
          IN  IF c \notin occ
              THEN /\ ~call'.ok
                   /\ segments' = segments
              ELSE /\ call'.ok
                   /\ Len(segments') = Len(segments) - 1
                   /\ OccupiedCells(segments') = occ \ {c}
                   /\ \A n \in occ \ {c} :
                         NeighborsOf(segments', n) =
                             NeighborsOf(segments, n) \ {KeyOf(c)}]_vars

\* removeSegment took away a cell that had two neighbours, and another cell
\* that was not its neighbour stays
C21_Witness ==
    /\ call.op = "removeSegment" /\ call.ok
    /\ call.start \notin OccupiedCells(segments)
    /\ Cardinality({n \in OccupiedCells(segments) : Adjacent4(n, call.start)}) = 2
    /\ Len(segments) = 3

----------------------------------------------------------------------------
(* Properties of the router (SpecRouter, SpecOrder) *)

\* the positions of the segments within maxDistance of a position
WithinReach(segs, position, maxDistance) ==
    {i \in 1..Len(segs) :
        heuristic(Cell(segs[i].gridX, segs[i].gridY), position) <= maxDistance}

\* C22: findNearestRoad returns none exactly when no occupied cell lies
\* within Manhattan distance maxDistance of the position; otherwise it
\* returns an occupied cell of the least distance, and among several at that
\* distance the first in the insertion order of the network.
C22_NearestRoad ==
    call.op = "findNearestRoad" =>
        LET reach == WithinReach(segments, call.start, call.house)
            d(i) == heuristic(Cell(segments[i].gridX, segments[i].gridY), call.start)
        IN  IF reach = {}
            THEN ~call.ok /\ call.end = NoCell
            ELSE /\ call.ok
                 /\ \E i \in reach :
                       /\ call.end = Cell(segments[i].gridX, segments[i].gridY)
                       /\ \A j \in reach : d(i) <= d(j)
                       /\ \A j \in reach : j < i => d(j) > d(i)

\* a cell was returned although a segment later in the insertion order, and
\* earlier in row-major order, is as near
C22_Witness ==
    /\ call.op = "findNearestRoad" /\ call.ok
    /\ \E i, j \in WithinReach(segments, call.start, call.house) :
          /\ i < j
          /\ call.end = Cell(segments[i].gridX, segments[i].gridY)
          /\ heuristic(call.end, call.start) >= 1
          /\ heuristic(Cell(segments[j].gridX, segments[j].gridY), call.start)
                = heuristic(call.end, call.start)
          /\ segments[i].gridY * PathW + segments[i].gridX
                > segments[j].gridY * PathW + segments[j].gridX

\* the networks of the same occupied cells added in row-major order,
\* ascending and descending
Rebuilt(segs) ==
    {BuildRoad(<< >>, CellOrder(OccupiedCells(segs), descending)) :
        descending \in BOOLEAN}

\* the same segments, each with the same neighbour order, in another order of
\* the segments map: reversed, and rotated by every offset
Reordered(segs) ==
    LET n == Len(segs)
    IN  {[i \in 1..n |-> segs[n + 1 - i]]} \cup
        {[i \in 1..n |-> segs[((i + k - 1) % n) + 1]] : k \in 0..(n - 1)}

\* C23: two runs of findPath on networks with the same occupied cells and
\* the same start and end return the same sequence of cells.
C23_SameCellsSamePath ==
    call.op = "findPath" =>
        \A other \in Rebuilt(segments) :
            findPath(other, call.start, call.end) = call.path

\* C23 amended: findPath is a function of the start, the end and, for each
\* occupied cell, the order of its neighbour set: two networks with the same
\* occupied cells return paths of the same length, and they return the same
\* sequence of cells when every cell's neighbour set has the same order,
\* whatever the order of the segments map.
C23_SameNeighborOrderSamePath ==
    call.op = "findPath" =>
        /\ \A other \in Rebuilt(segments) :
              Len(findPath(other, call.start, call.end)) = Len(call.path)
        /\ \A other \in Reordered(segments) :
              findPath(other, call.start, call.end) = call.path

\* a path was returned that the same cells added in the other order do not
\* give
C23_Witness ==
    /\ call.op = "findPath"
    /\ Len(call.path) >= 3
    /\ \E other \in Rebuilt(segments) :
          findPath(other, call.start, call.end) # call.path

----------------------------------------------------------------------------
(* Properties of the vehicles in transit (Spec) *)

\* C25: in every state before teardown (TrafficManager.destroy), every
\* destination's waitingCount is the number of live vehicles whose
\* targetDestination is that destination's cell.
C25_WaitingCountIsLiveCount ==
    ~destroyed =>
        \A d \in 1..Len(destinations) :
            destinations[d].waitingCars = TargetCount(cars, d)

\* after a frame that retired a vehicle, the two destinations have different
\* numbers of vehicles on their way
C25_Witness ==
    /\ ~destroyed
    /\ call.op = "update" /\ call.ok
    /\ retired >= 1
    /\ destinations[1].waitingCars >= 2
    /\ destinations[2].waitingCars = 1
    /\ Len(cars) = destinations[1].waitingCars + 1

\* a vehicle within the snap distance of the last waypoint of its path: the
\* next frame reports it as arrived
Arriving(car) ==
    /\ car.isMoving
    /\ Len(car.path) > 0
    /\ car.currentPathIndex = Len(car.path) - 1
    /\ LET target == car.path[Len(car.path)]
           dx == gridToWorld(target.gridX) - car.x
           dy == gridToWorld(target.gridY) - car.y
       IN  dx * dx + dy * dy < (2 * SnapDistance) * (2 * SnapDistance)

\* a vehicle that has been reported as arrived
Arrived(car) == ~car.isMoving \/ car.currentPathIndex >= Len(car.path)

\* C26: a vehicle is retired at most once. In a frame, each vehicle that
\* arrives causes exactly one removal from the live list, one decrement of
\* the waitingCount of its own target and of no other, and one delivery in
\* the score; no arrived vehicle stays in the list to be counted by a later
\* frame; and no other step removes a vehicle, retires one or scores.
C26_RetiredOnce ==
    [][IF call'.op = "update" /\ state = "PLAYING"
       THEN LET arriving == {i \in 1..Len(cars) : Arriving(cars[i])}
                n == Cardinality(arriving)
            IN  /\ Len(cars) - Len(cars') = n
                /\ retired' - retired = n
                /\ score' - score = n * POINTS_PER_DELIVERY
                /\ \A d \in 1..Len(destinations) :
                      destinations[d].waitingCars - destinations'[d].waitingCars =
                          Cardinality({i \in arriving :
                              cars[i].targetDestination = getGridPosition(destinations[d])})
                /\ \A j \in 1..Len(cars') : ~Arrived(cars'[j])
       ELSE /\ retired' = retired
            /\ score' = score
            /\ Len(cars') >= Len(cars)
            /\ \A j \in 1..Len(cars') : ~Arrived(cars'[j])]_vars

\* frames have retired three vehicles, each scored once, and a vehicle is
\* still in transit
C26_Witness ==
    /\ call.op = "update" /\ call.ok
    /\ retired >= 3
    /\ score = retired * POINTS_PER_DELIVERY
    /\ Len(cars) >= 1
    /\ spawned = retired + Len(cars)

\* the indices of the vehicles a frame does not retire, in list order
Staying(cs) == SelectSeq([i \in 1..Len(cs) |-> i], LAMBDA i : ~Arriving(cs[i]))

\* C27: for every live vehicle pathIndex never decreases and rises by at most
\* 1 in a frame; a frame either advances the index or moves the vehicle,
\* never both; and at the end of every frame, and in every other state, no
\* vehicle of the live list has pathIndex >= Len(path).
C27_PathIndexSteps ==
    [][/\ \A j \in 1..Len(cars') : cars'[j].currentPathIndex < Len(cars'[j].path)
       /\ IF call'.op = "update" /\ state = "PLAYING"
          THEN /\ Len(cars') = Len(Staying(cars))
               /\ \A j \in 1..Len(cars') :
                     LET a == cars[Staying(cars)[j]]
                         b == cars'[j]
                         moved == b.x # a.x \/ b.y # a.y
                     IN  /\ b.path = a.path
                         /\ b.currentPathIndex \in
                                {a.currentPathIndex, a.currentPathIndex + 1}
                         /\ ~(moved /\ b.currentPathIndex # a.currentPathIndex)
          ELSE /\ Len(cars') >= Len(cars)
               /\ SubSeq(cars', 1, Len(cars)) = cars
               /\ \A j \in (Len(cars) + 1)..Len(cars') :
                     cars'[j].currentPathIndex = 0]_vars

\* after a frame, one vehicle has passed its first waypoint and moved on, and
\* another, spawned later, has only passed its first waypoint
C27_Witness ==
    /\ call.op = "update" /\ call.ok
    /\ \E i, j \in 1..Len(cars) :
          /\ cars[i].currentPathIndex = 1
          /\ cars[i].x # gridToWorld(cars[i].path[1].gridX)
          /\ cars[j].currentPathIndex = 1
          /\ cars[j].x = gridToWorld(cars[j].path[1].gridX)
    /\ retired >= 1

\* C28: the pass of a frame over the vehicles is one batch. In every
\* interleaving of spawn firings and frames, each vehicle in the list at the
\* start of a frame is advanced exactly once by Car.update in that frame, the
\* vehicles that stay keep their order, removing an arrived vehicle neither
\* skips nor repeats another, and the deliveries the driver derives (list
\* length before minus list length after) are the vehicles retired in the
\* frame.
C28_FrameIsOneBatch ==
    [][(call'.op = "update" /\ state = "PLAYING") =>
          /\ \E delta \in Deltas :
                cars' = [j \in 1..Len(Staying(cars)) |->
                            carUpdate(cars[Staying(cars)[j]], delta).car]
          /\ Len(cars) - Len(cars') = retired' - retired
          /\ score' - score = (Len(cars) - Len(cars')) * POINTS_PER_DELIVERY
          /\ spawned' = spawned]_vars

\* a frame has retired the first vehicle of the list while the second moved
\* and the third, spawned a frame later, passed its first waypoint
C28_Witness ==
    /\ call.op = "update" /\ call.ok
    /\ retired = 1
    /\ Len(cars) = 2
    /\ cars[1].currentPathIndex = 1
    /\ cars[1].x # gridToWorld(cars[1].path[1].gridX)
    /\ cars[2].currentPathIndex = 1
    /\ cars[2].x = gridToWorld(cars[2].path[1].gridX)

----------------------------------------------------------------------------
(* Properties of a spawn firing (SpecTarget) *)

\* the road cell a building is projected on, NoRoad when none is in reach
Projected(b) == findNearestRoad(segments, getGridPosition(b), NearestRoadRadius)

\* destination d has the colour of house h, a road cell within the radius,
\* and a route from the house's projected cell to it
Eligible(h, d) ==
    /\ destinations[d].color = houses[h].color
    /\ Projected(houses[h]) # NoRoad
    /\ Projected(destinations[d]) # NoRoad
    /\ findPath(segments, Projected(houses[h]), Projected(destinations[d])) # << >>

\* C29: on a spawn firing the vehicle's target is the first destination, in
\* registration order among those of the house's colour, that has a road
\* cell within Manhattan distance 3 and a non-empty findPath from the house's
\* projected road cell to it; a later destination is chosen only when every
\* earlier one fails, and no vehicle is spawned when all fail.
C29_FirstEligibleDestination ==
    [][call'.op = "spawnCar" =>
          LET h == call'.house
              eligible == {d \in 1..Len(destinations) : Eligible(h, d)}
          IN  IF eligible = {}
              THEN /\ ~call'.ok
                   /\ cars' = cars
                   /\ destinations' = destinations
              ELSE LET first == CHOOSE d \in eligible : \A e \in eligible : d <= e
                       car == cars'[Len(cars')]
                   IN  /\ call'.ok
                       /\ Len(cars') = Len(cars) + 1
                       /\ car.targetDestination = getGridPosition(destinations[first])
                       /\ car.path =
                              findPath(segments, Projected(houses[h]),
                                       Projected(destinations[first]))]_vars

\* the second destination was chosen although the first has the house's
\* colour and a road cell within the radius: no route leads to that cell
C29_Witness ==
    /\ call.op = "spawnCar" /\ call.ok
    /\ destinations[1].color = houses[call.house].color
    /\ Projected(destinations[1]) # NoRoad
    /\ ~Eligible(call.house, 1)
    /\ cars[Len(cars)].targetDestination = getGridPosition(destinations[2])

\* C30: a successful spawn creates exactly one vehicle, at the centre of the
\* house's projected road cell, with pathIndex 0, the house's colour and
\* targetDestination the chosen destination's cell, appends it to the live
\* list and raises that destination's waitingCount by exactly 1; every other
\* waitingCount, every other vehicle and the road network are unchanged.
C30_SpawnEffect ==
    [][(call'.op = "spawnCar" /\ call'.ok) =>
          LET h == houses[call'.house]
              car == cars'[Len(cars')]
              cell == Projected(h)
          IN  /\ Len(cars') = Len(cars) + 1
              /\ SubSeq(cars', 1, Len(cars)) = cars
              /\ spawned' = spawned + 1
              /\ car.x = 2 * cell.gridX * GRID_SIZE + GRID_SIZE
              /\ car.y = 2 * cell.gridY * GRID_SIZE + GRID_SIZE
              /\ car.path[1] = cell
              /\ car.currentPathIndex = 0
              /\ car.isMoving
              /\ car.color = h.color
              /\ \E d \in 1..Len(destinations) :
                    /\ car.targetDestination = getGridPosition(destinations[d])
                    /\ destinations' =
                          [destinations EXCEPT ![d].waitingCars = @ + 1]
              /\ segments' = segments
              /\ score' = score
              /\ state' = state]_vars

\* a second vehicle was spawned behind one that has left the spawn cell, to
\* a destination that already had one vehicle on its way
C30_Witness ==
    /\ call.op = "spawnCar" /\ call.ok
    /\ Len(cars) = 2
    /\ cars[1].x # cars[2].x
    /\ cars[2].currentPathIndex = 0
    /\ \E d \in 1..Len(destinations) :
          /\ destinations[d].waitingCars = 2
          /\ cars[2].targetDestination = getGridPosition(destinations[d])

\* the networks of SpecTarget
TargetNetworks ==
    {BuildRoad(<< >>, CellOrder(cs, descending)) :
        cs \in SUBSET TargetRoadCells, descending \in BOOLEAN}

\* the path spawnCar gives a vehicle of house h on network segs
SpawnPath(segs, h) ==
    LET matching == matchingDestinations(destinations, houses[h])
        nearestRoad == findNearestRoad(segs, getGridPosition(houses[h]), NearestRoadRadius)
        found == IF nearestRoad = NoRoad THEN [target |-> 0, path |-> << >>]
                 ELSE chooseTarget(segs, destinations, matching, 1, nearestRoad)
    IN  IF found.target = 0 THEN << >>
        ELSE withFinalWaypoint(segs, destinations[found.target], found.path)

\* the last hop of a path joins two cells that are not 4-adjacent
NonAdjacentFinalHop(path) ==
    /\ Len(path) >= 2
    /\ ~Adjacent4(path[Len(path) - 1], path[Len(path)])

\* C31: there is a road geometry on which a spawn appends the destination's
\* nearest road cell to the found path as a final waypoint that is not
\* 4-adjacent to the cell before it.
C31_SomeNonAdjacentFinalHop ==
    \E segs \in TargetNetworks, h \in 1..Len(houses) :
        NonAdjacentFinalHop(SpawnPath(segs, h))

\* C31 amended: on every road geometry the path of a spawned vehicle is the
\* path findPath returned, with nothing appended: it starts at the house's
\* projected road cell, ends at the target's projected road cell, and every
\* two consecutive cells of it, the last hop included, are 4-adjacent.
C31_NothingAppended ==
    \A i \in 1..Len(cars) :
        LET path == cars[i].path
        IN  /\ Len(path) >= 1
            /\ path[1] = Projected(houses[1])
            /\ \E d \in 1..Len(destinations) :
                  /\ cars[i].targetDestination = getGridPosition(destinations[d])
                  /\ path[Len(path)] = Projected(destinations[d])
            /\ path = findPath(segments, path[1], path[Len(path)])
            /\ \A k \in 1..(Len(path) - 1) : Adjacent4(path[k], path[k + 1])
            /\ ~NonAdjacentFinalHop(path)

\* a vehicle was spawned with a path over the four cells of the row
C31_Witness ==
    /\ call.op = "spawnCar" /\ call.ok
    /\ Len(cars[Len(cars)].path) = 4
    /\ cars[Len(cars)].path[4] = Projected(destinations[1])
    /\ cars[Len(cars)].currentPathIndex = 0

\* no road cell lies within Manhattan distance 3 of building b
OutOfReach(b) ==
    \A i \in 1..Len(segments) :
        heuristic(Cell(segments[i].gridX, segments[i].gridY), getGridPosition(b)) > 3

\* C32: a spawn firing for a house with no road cell within Manhattan
\* distance 3 spawns no vehicle and leaves the vehicle list and every
\* waitingCount as they were; its only effect is that the house's next
\* firing is scheduled.
C32_NoRoadNoSpawn ==
    [][(call'.op = "spawnCar" /\ OutOfReach(houses[call'.house])) =>
          /\ ~call'.ok
          /\ cars' = cars
          /\ destinations' = destinations
          /\ spawned' = spawned
          /\ timers[call'.house] = 1
          /\ timers'[call'.house] = 1
          /\ <<segments, houses, state, score, retired>>' =
                <<segments, houses, state, score, retired>>]_vars

\* a house has fired without spawning: the only road cell is four cells
\* away, although its destination has that cell within reach
C32_Witness ==
    /\ call.op = "spawnCar" /\ ~call.ok
    /\ Len(segments) = 1
    /\ OutOfReach(houses[call.house])
    /\ \E d \in 1..Len(destinations) :
          /\ destinations[d].color = houses[call.house].color
          /\ ~OutOfReach(destinations[d])
    /\ timers[call.house] = 1
    /\ cars = << >>

----------------------------------------------------------------------------
(* Properties of the building spawns (SpecCadence, SpecPlace) *)

\* the delay of the k-th spawn scheduled after the initial one
DelayOf(k) ==
    IF SPAWN_INTERVAL - k * SPAWN_INTERVAL_DECREASE >= MIN_SPAWN_INTERVAL
    THEN SPAWN_INTERVAL - k * SPAWN_INTERVAL_DECREASE
    ELSE MIN_SPAWN_INTERVAL

\* C33: the building spawn interval never increases and is never below
\* MIN_SPAWN_INTERVAL; the delay of the k-th spawn scheduled after the
\* initial one is max(MIN_SPAWN_INTERVAL, SPAWN_INTERVAL - k *
\* SPAWN_INTERVAL_DECREASE), and once at the floor it stays there.
C33_IntervalDecay ==
    [][/\ currentSpawnInterval' = DelayOf(scheduledSpawns')
       /\ currentSpawnInterval' <= currentSpawnInterval
       /\ currentSpawnInterval' >= MIN_SPAWN_INTERVAL
       /\ currentSpawnInterval = MIN_SPAWN_INTERVAL =>
             currentSpawnInterval' = MIN_SPAWN_INTERVAL]_vars

\* a spawn was scheduled at the floor after the interval had reached it
C33_Witness ==
    /\ call.op = "spawnBuilding"
    /\ currentSpawnInterval = MIN_SPAWN_INTERVAL
    /\ scheduledSpawns * SPAWN_INTERVAL_DECREASE > SPAWN_INTERVAL - MIN_SPAWN_INTERVAL

\* C34: a placement that finds no valid cell within its attempts is not an
\* error: it adds no building, leaves the house and destination lists as
\* they were, and the next building spawn is still scheduled; a placement
\* that finds a cell adds exactly one building.
C34_FailedPlacementIsSoft ==
    [][call'.op = "spawnBuilding" =>
          /\ ~call'.ok =>
                /\ houses' = houses
                /\ destinations' = destinations
          /\ call'.ok =>
                Len(houses') + Len(destinations') = Len(houses) + Len(destinations) + 1
          /\ scheduledSpawns' = scheduledSpawns + 1
          /\ currentSpawnInterval' = DelayOf(scheduledSpawns')
          /\ <<segments, cars, state, score>>' = <<segments, cars, state, score>>]_vars

\* the placement of a house has failed on a board that holds a house and a
\* destination, and the one before it had failed too
C34_Witness ==
    /\ call.op = "spawnBuilding" /\ ~call.ok
    /\ Len(houses) = 1 /\ Len(destinations) = 1
    /\ scheduledSpawns = 4
    /\ currentSpawnInterval = DelayOf(4)
    /\ state = "PLAYING"

\* C35: houses and destinations alternate. After any sequence of building
\* spawns, failed placements included, the number of houses minus the number
\* of destinations is 0 or 1; a spawn adds a house only when the counts are
\* equal and a destination only when there is one more house.
C35_Alternation ==
    [][/\ Len(houses') - Len(destinations') \in {0, 1}
       /\ Len(houses') > Len(houses) =>
             /\ Len(houses) = Len(destinations)
             /\ Len(houses') = Len(houses) + 1
             /\ destinations' = destinations
       /\ Len(destinations') > Len(destinations) =>
             /\ Len(houses) = Len(destinations) + 1
             /\ Len(destinations') = Len(destinations) + 1
             /\ houses' = houses]_vars

\* a second house was placed after a house, a failed placement and a
\* destination
C35_Witness ==
    /\ call.op = "spawnBuilding" /\ call.ok
    /\ Len(houses) = 2 /\ Len(destinations) = 1
    /\ scheduledSpawns = 4

----------------------------------------------------------------------------
(* Properties of vehicles on a changing road (SpecTransit) *)

----------------------------------------------------------------------------
(* The add/remove round trip (SpecRoad) *)

\* the network after addSegment(c) followed by removeSegment(c)
RoundTrip(segs, c) ==
    removeSegment(addSegment(segs, c.gridX, c.gridY), c.gridX, c.gridY)

\* C37: for every network and every unoccupied cell c, addSegment(c)
\* followed by removeSegment(c) restores exactly the previous set of
\* occupied cells and the previous neighbour set of every cell.
C37_AddRemoveRoundTrip ==
    \A c \in WindowCells :
        ~hasSegment(segments, c.gridX, c.gridY) =>
            /\ OccupiedCells(RoundTrip(segments, c)) = OccupiedCells(segments)
            /\ \A n \in OccupiedCells(segments) :
                  NeighborsOf(RoundTrip(segments, c), n) = NeighborsOf(segments, n)

\* a network of linked cells with an unoccupied cell beside two of them:
\* adding it rewrites both neighbour sets, and it has just been removed
C37_Witness ==
    /\ call.op = "removeSegment" /\ call.ok
    /\ ~hasSegment(segments, call.start.gridX, call.start.gridY)
    /\ Len(segments) >= 2
    /\ \E a, b \in OccupiedCells(segments) :
          /\ a # b
          /\ Adjacent4(a, call.start) /\ Adjacent4(b, call.start)
          /\ NeighborsOf(segments, a) # {}
          /\ KeyOf(call.start) \in
                 NeighborsOf(addSegment(segments, call.start.gridX, call.start.gridY), a)

----------------------------------------------------------------------------
(* The cells laid by one drag step (SpecBuild) *)

\* C38: the road cells laid by one drag step between two valid grid cells,
\* getPathBetween from the last built cell to the current cell, form a
\* sequence that starts at the first cell, ends at the second, stays inside
\* the grid, and in which every two consecutive cells are 4-adjacent, so
\* that they are linked in the road graph after the step.
C38_DragStepConnected ==
    [][(/\ call'.op = "pointermove"
        /\ ~isErasing /\ isBuilding /\ lastBuiltPos # NoCell
        /\ isValidGridPosition(call'.end.gridX, call'.end.gridY)
        /\ call'.end # lastBuiltPos) =>
          LET path == getPathBetween(lastBuiltPos, call'.end)
          IN  /\ Len(path) >= 2
              /\ path[1] = lastBuiltPos
              /\ path[Len(path)] = call'.end
              /\ \A k \in 1..Len(path) :
                    isValidGridPosition(path[k].gridX, path[k].gridY)
              /\ \A k \in 1..(Len(path) - 1) :
                    /\ Adjacent4(path[k], path[k + 1])
                    /\ KeyOf(path[k + 1]) \in NeighborsOf(segments', path[k])]_vars

====
